---- MODULE Spec2Model ----
(***************************************************************************)
(* Device isolation of crosvm (devices/src/proxy.rs): a BusDevice is       *)
(* forked into a jailed child process (ChildProcIntf::new, fork_process),  *)
(* the child runs child_proc over a Tube, and the parent forwards every    *)
(* BusDevice / Suspendable call over the Tube (ProxyDevice).               *)
(*                                                                         *)
(* The wrapped device is the EchoDevice of proxy.rs's tests.  The Tube     *)
(* (base::Tube, a SOCK_SEQPACKET pair) is modelled as two FIFO queues with *)
(* the holders of each endpoint.  The GoldfishBattery of bat.rs stands for *)
(* the devices that implement Suspendable themselves (suspendable.rs).     *)
(***************************************************************************)
EXTENDS Integers, Sequences, FiniteSets, TLC

\* ------------------------------------------------------------------ bounds

\* Copies of one ChildProcIntf that serde may produce (proxy.rs:235-251).
NumCopies == 2
\* Requests that may sit unhandled in the parent-to-child direction.
MaxQueue == 2

\* Descriptors a keep-list may name, and how many of them a caller passes.
NumFds == 3
MaxKeep == 3

Copies == 1..NumCopies

\* RawDescriptor values: the descriptors after stdin, stdout and stderr.
Fds == 3..(2 + NumFds)

\* keep_rds: Vec<RawDescriptor>, in any order and with repetitions.
KeepLists == UNION {[1..n -> Fds] : n \in 0..MaxKeep}

\* The byte values callers pass: 0, which EchoDevice starts with, and the 42
\* of test_proxied_read_write and test_proxied_config.
TEST_BYTE == 42
Bytes == {0, TEST_BYTE}

\* The inline buffers of Command::Write / CommandResult::ReadResult and of
\* Command::WriteConfig.
DATA_BUF_LEN == 8
CONFIG_BUF_LEN == 4
\* Exit codes of the forked process.
EXIT_OK == 0
EXIT_PANIC == 101
\* libc::exit(1) after a failed on_process_forked.
EXIT_FAILURE == 1
\* wait() reports 128 + signal for a signalled child; SIGKILL is 9.
EXIT_KILLED == 137

VARIABLES
    launch,     \* ChildProcIntf::new: "init", "ok" or "err"
    cpc,        \* child process: "none", "forked", "await", "active",
                \* "shutdown", "exited"
    exitCode,   \* the child's exit code, -1 while it has none
    dev,        \* the device model owned by the child
    p2c,        \* Tube, parent to child: sequence of Command
    c2p,        \* Tube, child to parent: sequence of CommandResult
    childEnd,   \* processes holding the child-side endpoint open
    ppc,        \* per copy of the ChildProcIntf: its position
    pend,       \* per copy: the command its blocking call waits on
    callbuf,    \* per copy: the caller's data buffer of a pending read
    ret,        \* what a ProxyDevice call returned, if the last step was that
    converted,  \* copies whose TryFrom returned Ok(ProxyDevice)
    actOks,     \* CommandResult::Ok sends attempted in answer to Activate
    last,       \* what the child did with a command, if the last step was that
    shut,       \* the Command::Shutdown child_proc is handling
    undelivered,\* copies blocked in sync_send whose tube.send failed
    shadow,     \* the same device run in-process, given the same calls
    fk,         \* ChildProcIntf::new: keep_rds, what jail.fork was handed
    bat,        \* a GoldfishBattery used in-process, and what was done to it
    log         \* the protocol failures a ProxyDevice method met in the last
                \* step, with the report error! made of each

vars == <<launch, cpc, exitCode, dev, p2c, c2p, childEnd, ppc, pend, callbuf,
          ret, converted, actOks, last, shut, undelivered, shadow, fk, bat, log>>

\* ---------------------------------------------------------------- messages

\* BusAccessInfo { offset, address, id }
BusAccessInfo(offset, address, id) ==
    [offset |-> offset, address |-> address, id |-> id]

\* The BusAccessInfo of test_proxied_read_write.
NoInfo == BusAccessInfo(0, 0, 0)

\* What a device method is handed for a bus access; NoArgs: no bus access.
NoArgs == [info |-> NoInfo, data |-> <<>>]

\* enum Command; src and given are ghosts: the copy that sent the request and
\* what the caller handed to ProxyDevice::read or write.
Req(cmd, len, data, num, src) ==
    [cmd |-> cmd, len |-> len, data |-> data, num |-> num, src |-> src,
     info |-> NoInfo, given |-> NoArgs]

NoReq == Req("None", 0, <<>>, 0, 0)

\* ConfigWriteResult::default(): five empty lists.
DefaultConfigWriteResult ==
    [mmio_remove |-> <<>>, mmio_add |-> <<>>, io_remove |-> <<>>,
     io_add |-> <<>>, removed_pci_devices |-> <<>>]

\* enum CommandResult; cw holds the lists of a WriteConfigResult.  re, src and
\* dev_cw are ghosts: the command this result was produced for, the copy
\* that sent it and the ConfigWriteResult the device returned.
Res(type, bytes, num, ok, re, src) ==
    [type |-> type, bytes |-> bytes, num |-> num, ok |-> ok, re |-> re,
     src |-> src, cw |-> DefaultConfigWriteResult,
     dev_cw |-> DefaultConfigWriteResult]

NoRes == Res("None", <<>>, 0, FALSE, "None", 0)

\* let mut buffer = [0u8; n]; buffer[0..data.len()].clone_from_slice(data)
Pad(data, n) == [i \in 1..n |-> IF i <= Len(data) THEN data[i] ELSE 0]

\* &buffer[0..len]
Slice(buf, len) == SubSeq(buf, 1, len)

\* ProxyDevice::read / write build their Command: len = data.len() as u32,
\* the info as given and, for a write, the data copied into [0u8; 8].
ReqAccess(cmd, info, given, src) ==
    [Req(cmd, Len(given),
         IF cmd = "Write" THEN Pad(given, DATA_BUF_LEN) ELSE <<>>, 0, src)
        EXCEPT !.info = info, !.given = [info |-> info, data |-> given]]

\* ------------------------------------------------------------- the device

\* EchoDevice::new
EchoNew == [data |-> 0, config |-> 0, dropped |-> FALSE]

\* EchoDevice::write: self.data = data[0]
EchoWrite(d, data) == [d EXCEPT !.data = data[1]]

\* EchoDevice::read: data[0] = self.data
EchoRead(d, buf) == [i \in 1..Len(buf) |-> IF i = 1 THEN d.data ELSE buf[i]]

\* EchoDevice::config_register_write: self.config = data[0]
EchoConfigWrite(d, data) == [d EXCEPT !.config = data[1]]

\* EchoDevice::config_register_read: self.config as u32
EchoConfigRead(d) == d.config

\* drop(device)
Dropped(d) == [d EXCEPT !.dropped = TRUE]

\* A PCI device with one BAR register (the PCI device models are not part of
\* these sources): the register holds the BAR's base, 0 for none.
PciNew == [data |-> 0, config |-> 0, dropped |-> FALSE, pci |-> TRUE]

IsPci(d) == "pci" \in DOMAIN d

\* The bus ranges of a BAR at `base`: two consecutive ranges.
BarRanges(base, len) ==
    <<[base |-> base, len |-> len], [base |-> base + len, len |-> len]>>

\* The BAR register is written: the ranges of the old base leave the buses,
\* those of the new base join them, and a BAR set to 0 removes the device
\* behind it.
PciConfigWriteResult(d, data) ==
    [mmio_remove |-> IF d.config # 0 THEN BarRanges(d.config, 16) ELSE <<>>,
     mmio_add |-> IF data[1] # 0 THEN BarRanges(data[1], 16) ELSE <<>>,
     io_remove |-> IF d.config # 0 THEN <<[base |-> d.config, len |-> 4]>>
                   ELSE <<>>,
     io_add |-> IF data[1] # 0 THEN <<[base |-> data[1], len |-> 4]>>
                ELSE <<>>,
     removed_pci_devices |->
        IF d.config # 0 /\ data[1] = 0
        THEN <<[bus |-> 0, dev |-> 1, func |-> 0]>>
        ELSE <<>>]

\* What device.init_pci_config_mapping returns: false for BusDevice's default
\* method, which EchoDevice keeps; true for a PCI device, which maps its
\* configuration space.
DevInitPciConfigMapping(d) == IsPci(d)

\* What device.config_register_write returns: EchoDevice (and BusDevice's
\* default) the default ConfigWriteResult, a PCI device the ranges that
\* moved.
DevConfigWriteResult(d, data) ==
    IF IsPci(d) THEN PciConfigWriteResult(d, data) ELSE DefaultConfigWriteResult

\* ------------------------------------------------------- GoldfishBattery

\* The interrupt bits of bat.rs.
BATTERY_STATUS_CHANGED == 1
AC_STATUS_CHANGED == 2
BATTERY_INT_MASK == 3
\* GoldfishBattery::new: capacity: 50; tests::modify_device: set_capacity(70).
BAT_CAPACITY_NEW == 50
BAT_CAPACITY_MOD == 70

\* v & mask for a mask of one bit, as a truth value.
HasBit(v, mask) == (v \div mask) % 2 = 1

\* GoldfishBatteryState::set_int_status
SetIntStatus(st, mask) ==
    IF HasBit(st.int_enable, mask) /\ ~HasBit(st.int_status, mask)
    THEN [st EXCEPT !.int_status = @ + mask]
    ELSE st

\* The interrupt bit create_battery_func! gives each setter.
IntOf(property) ==
    IF property = "ac_online" THEN AC_STATUS_CHANGED ELSE BATTERY_STATUS_CHANGED

\* create_battery_func!: let old = mem::replace(&mut self.$property, value);
\* old != self.$property && self.set_int_status($int)
SetProperty(st, property, value) ==
    LET set == [st EXCEPT ![property] = value] IN
    IF st[property] # value THEN SetIntStatus(set, IntOf(property)) ELSE set

\* Mutant: the setter reports an interrupt whenever the value changed.
SetPropertyInjectOnChange(st, property, value) == st[property] # value

\* What a setter of create_battery_func! returns, and command_monitor takes
\* as inject_irq: old != self.$property && self.set_int_status($int), where
\* set_int_status returns whether it set the bit.
SetPropertyInject(st, property, value) ==
    /\ st[property] # value
    /\ SetIntStatus(st, IntOf(property)) # st

\* GoldfishBattery::new(0, 0, ..): the device of bat.rs's tests.  Of the
\* WorkerThread and the Tube only their presence is kept; starts is a ghost,
\* the monitor threads this device has started.
GoldfishBatteryNew ==
    [state |-> [int_status |-> 0, int_enable |-> 0, ac_online |-> 1,
                status |-> 0, health |-> 0, present |-> 1,
                capacity |-> BAT_CAPACITY_NEW, voltage |-> 0, current |-> 0,
                charge_counter |-> 0, charge_full |-> 0],
     mmio_base |-> 0, irq_num |-> 0, activated |-> FALSE,
     monitor_thread |-> FALSE, tube |-> TRUE, starts |-> 0]

\* Mutant: the monitor is started on a clone of the control tube, and the
\* device keeps its own.
StartMonitorKeepsTube(d) ==
    IF d.activated
    THEN d
    ELSE IF d.tube
         THEN [d EXCEPT !.monitor_thread = TRUE, !.activated = TRUE,
                        !.starts = @ + 1]
         ELSE d

\* GoldfishBattery::start_monitor: the thread is started with the control
\* tube, which self.tube.take() leaves the device without.
StartMonitor(d) ==
    IF d.activated
    THEN d
    ELSE IF d.tube
         THEN [d EXCEPT !.tube = FALSE, !.monitor_thread = TRUE,
                        !.activated = TRUE, !.starts = @ + 1]
         ELSE d

\* Mutant: sleep stops the monitor and marks the device as not activated
\* when it was running, and as activated again when it was not.
BatSleepToggles(d) ==
    [d EXCEPT !.monitor_thread = FALSE, !.activated = ~d.monitor_thread]

\* Suspendable::sleep for GoldfishBattery: the monitor thread, if there is
\* one, is taken and stopped; always Ok(()).
BatSleep(d) == [d EXCEPT !.monitor_thread = FALSE]

\* Suspendable::wake for GoldfishBattery; always Ok(()).
BatWake(d) ==
    IF d.activated THEN StartMonitor([d EXCEPT !.activated = FALSE]) ELSE d

\* Mutant: the snapshot leaves out the battery state.
BatSnapshotNoState(d) ==
    [state |-> GoldfishBatteryNew.state, mmio_base |-> d.mmio_base,
     irq_num |-> d.irq_num, activated |-> d.activated]

\* Suspendable::snapshot for GoldfishBattery: serde_json::to_value of a
\* GoldfishBatterySnapshot, a JSON object of four members.
BatSnapshot(d) ==
    [state |-> d.state, mmio_base |-> d.mmio_base, irq_num |-> d.irq_num,
     activated |-> d.activated]

\* serde_json::Value::Null, and the mark of no value.
JsonNull == [null |-> TRUE]

\* serde_json::from_value::<GoldfishBatterySnapshot> succeeds: the value is
\* an object with the members of the struct.
IsBatSnapshot(data) ==
    DOMAIN data = {"state", "mmio_base", "irq_num", "activated"}

\* Mutant: restore takes the registers and leaves `activated` as it is.
BatRestoreKeepsActivated(d, data) ==
    IF IsBatSnapshot(data)
    THEN [d EXCEPT !.state = data.state, !.mmio_base = data.mmio_base,
                   !.irq_num = data.irq_num]
    ELSE d

\* Suspendable::restore for GoldfishBattery: Err and no change when the value
\* does not deserialize.
BatRestore(d, data) ==
    IF IsBatSnapshot(data)
    THEN [d EXCEPT !.state = data.state, !.mmio_base = data.mmio_base,
                   !.irq_num = data.irq_num, !.activated = data.activated]
    ELSE d

\* BusDevice::read of BATTERY_INT_STATUS: read to clear.
BatReadIntStatus(d) == [d EXCEPT !.state.int_status = 0]

\* BusDevice::write of BATTERY_INT_ENABLE
BatWriteIntEnable(d, val) ==
    LET w == [d EXCEPT !.state.int_enable = val] IN
    IF val % (BATTERY_INT_MASK + 1) # 0 /\ ~w.activated
    THEN StartMonitor(w)
    ELSE w

\* The Goldfish Battery MMIO offsets.
BATTERY_INT_STATUS == 0
BATTERY_INT_ENABLE == 4
BATTERY_AC_ONLINE == 8
BATTERY_STATUS == 12
BATTERY_HEALTH == 16
BATTERY_PRESENT == 20
BATTERY_CAPACITY == 24
BATTERY_VOLTAGE == 28
BATTERY_TEMP == 32
BATTERY_CHARGE_COUNTER == 36
BATTERY_VOLTAGE_MAX == 40
BATTERY_CURRENT_MAX == 44
BATTERY_CURRENT_NOW == 48
BATTERY_CURRENT_AVG == 52
BATTERY_CHARGE_FULL_UAH == 56
BATTERY_CYCLE_COUNT == 64

\* std::mem::size_of::<u32>()
U32_SIZE == 4

\* u32::to_ne_bytes and u32::from_ne_bytes on the little-endian targets
\* crosvm is built for.
ToNeBytes(val) == [i \in 1..U32_SIZE |-> (val \div (256 ^ (i - 1))) % 256]
FromNeBytes(b) == b[1] + 256 * b[2] + 65536 * b[3] + 16777216 * b[4]

\* The match of GoldfishBattery::read on info.offset: the field of the state
\* a register shows, "zero" for the registers that read as 0, "none" for an
\* unsupported address.
BatRegister(offset) ==
    CASE offset = BATTERY_INT_STATUS -> "int_status"
      [] offset = BATTERY_INT_ENABLE -> "int_enable"
      [] offset = BATTERY_AC_ONLINE -> "ac_online"
      [] offset = BATTERY_STATUS -> "status"
      [] offset = BATTERY_HEALTH -> "health"
      [] offset = BATTERY_PRESENT -> "present"
      [] offset = BATTERY_CAPACITY -> "capacity"
      [] offset = BATTERY_VOLTAGE -> "voltage"
      [] offset = BATTERY_CHARGE_COUNTER -> "charge_counter"
      [] offset = BATTERY_CURRENT_NOW -> "current"
      [] offset = BATTERY_CHARGE_FULL_UAH -> "charge_full"
      [] offset \in {BATTERY_TEMP, BATTERY_VOLTAGE_MAX, BATTERY_CURRENT_MAX,
                     BATTERY_CURRENT_AVG, BATTERY_CYCLE_COUNT} -> "zero"
      [] OTHER -> "none"

\* Mutant: the interrupt status is read and left pending.
BatReadKeepsStatus(d, info, data) ==
    LET reg == BatRegister(info.offset) IN
    IF Len(data) # U32_SIZE \/ reg = "none"
    THEN [dev |-> d, data |-> data]
    ELSE [dev |-> d,
          data |-> ToNeBytes(IF reg = "zero" THEN 0 ELSE d.state[reg])]

\* BusDevice::read for GoldfishBattery: the device and the caller's slice
\* after the call.  Only a 4-byte read of a known register fills the slice.
BatRead(d, info, data) ==
    LET reg == BatRegister(info.offset) IN
    IF Len(data) # U32_SIZE \/ reg = "none"
    THEN [dev |-> d, data |-> data]
    ELSE [dev |-> IF reg = "int_status" THEN BatReadIntStatus(d) ELSE d,
          data |-> ToNeBytes(IF reg = "zero" THEN 0 ELSE d.state[reg])]

\* BusDevice::write for GoldfishBattery: only a 4-byte write of
\* BATTERY_INT_ENABLE changes the device.
BatWrite(d, info, data) ==
    IF Len(data) = U32_SIZE /\ info.offset = BATTERY_INT_ENABLE
    THEN BatWriteIntEnable(d, FromNeBytes(data))
    ELSE d

\* D: BusDevice, the device ChildProcIntf::new is given: the EchoDevice of
\* proxy.rs's tests or a GoldfishBattery.
IsBattery(d) == "state" \in DOMAIN d

\* device.read(info, data): the device and the slice after the call.
DevRead(d, info, data) ==
    IF IsBattery(d)
    THEN BatRead(d, info, data)
    ELSE [dev |-> d, data |-> EchoRead(d, data)]

\* device.write(info, data)
DevWrite(d, info, data) ==
    IF IsBattery(d) THEN BatWrite(d, info, data) ELSE EchoWrite(d, data)

\* The battery with what the caller holds: snap, the snapshot it kept; mods,
\* the setters that changed a value since (2: two or more, or some and then
\* a restore of snap, or the device was made anew); op, the last call
\* ("other": one that is no sleep, wake, snapshot or restore); ok and out,
\* what it returned.
BatNew ==
    [dev |-> GoldfishBatteryNew, snap |-> JsonNull, mods |-> 0,
     op |-> "other", ok |-> TRUE, out |-> JsonNull]

\* ---------------------------------------------------------------- the Tube

\* Some copy of the ChildProcIntf (or the ProxyDevice made of it) is alive:
\* the parent-side endpoint is open.
Live(pc) == pc \in {"held", "act_wait", "idle", "wait"}

ParentOpen == \E c \in Copies : Live(ppc[c])

ChildOpen == childEnd # {}

\* tube.send(cmd) in the parent: fails once the child-side endpoint is closed.
ParentSend(req) ==
    p2c' = IF ChildOpen THEN Append(p2c, req) ELSE p2c

\* The socket buffer takes the message (or the send fails at once).
CanSend == ChildOpen => Len(p2c) < MaxQueue

\* tube.send(res) in the child: fails once the parent-side endpoint is closed.
ChildSend(res) ==
    c2p' = IF ParentOpen THEN Append(c2p, res) ELSE c2p

\* The parent-side endpoint after copy c went away: with its last holder the
\* queued results go too.
CloseParentCopy(c, q) ==
    IF \E o \in Copies \ {c} : Live(ppc[o]) THEN q ELSE <<>>

\* -------------------------------------------------------------- the launch

\* Mutant: the parent keeps child_tube open after the fork.
HoldersParentKeeps == {"child", "parent"}

\* In the parent fork_process returns and drops post_fork_cb, which owns
\* child_tube: only the child holds the child-side endpoint.
HoldersAfterFork == {"child"}

\* keep_rds.sort_unstable()
RECURSIVE SortUnstable(_)
SortUnstable(s) ==
    IF s = <<>>
    THEN <<>>
    ELSE LET m == CHOOSE x \in {s[i] : i \in 1..Len(s)} :
                    \A j \in 1..Len(s) : x <= s[j]
             i == CHOOSE k \in 1..Len(s) : s[k] = m
         IN <<m>> \o SortUnstable(SubSeq(s, 1, i - 1) \o SubSeq(s, i + 1, Len(s)))

\* keep_rds.dedup(): removes consecutive repeated elements.
RECURSIVE Dedup(_)
Dedup(s) ==
    IF Len(s) <= 1
    THEN s
    ELSE IF s[1] = s[2]
         THEN Dedup(Tail(s))
         ELSE <<s[1]>> \o Dedup(Tail(s))

\* ChildProcIntf::new: keep_rds.push(child_tube.as_raw_descriptor()), and with
\* a swap PrepareFork keep_rds.extend(sender.as_raw_descriptors()).
KeepRdsForFork(keep_rds, child_tube, sender) ==
    keep_rds \o <<child_tube>> \o sender

\* Mutant: the list is deduplicated as it came, without the sort.
JailFdsUnsorted(keep_rds) == Dedup(keep_rds)

\* fork_process: the list jail.fork(Some(&keep_rds)) is handed.
JailFds(keep_rds) == Dedup(SortUnstable(keep_rds))

\* The launch: keep is the caller's keep_rds; tube, sender and jail are the
\* child_tube descriptor, the swap sender's descriptors and the list handed
\* to jail.fork, while the last step is the launch; swap: the child has an
\* on_process_forked to run; trace: what the forked child did so far.
NoFork ==
    [keep |-> <<>>, tube |-> 0, sender |-> <<>>, jail |-> <<>>,
     swap |-> FALSE, trace |-> <<>>]

\* The launch record once the launch is a step back.
Settled(f) ==
    [f EXCEPT !.keep = <<>>, !.tube = 0, !.sender = <<>>, !.jail = <<>>]

NoRet ==
    [c |-> 0, cmd |-> "None", got |-> "None", re |-> "None", src |-> 0,
     buf0 |-> <<>>, out |-> <<>>, exp |-> <<>>, num |-> 0, expNum |-> 0,
     ok |-> FALSE, childGone |-> FALSE, resOk |-> FALSE, sendErr |-> FALSE,
     resNum |-> 0, resList |-> <<>>, list |-> <<>>,
     cw |-> DefaultConfigWriteResult, devCw |-> DefaultConfigWriteResult,
     cloneErr |-> FALSE]

NoLast ==
    [cmd |-> "None", state |-> "none", sends |-> <<>>, call |-> "none",
     args |-> NoArgs]

\* The state when ChildProcIntf::new is called with `device`.
InitWith(device) ==
    /\ launch = "init"
    /\ cpc = "none"
    /\ exitCode = -1
    /\ dev = device
    /\ p2c = <<>>
    /\ c2p = <<>>
    /\ childEnd = {}
    /\ ppc = [c \in Copies |-> "none"]
    /\ pend = [c \in Copies |-> NoReq]
    /\ callbuf = [c \in Copies |-> <<>>]
    /\ ret = NoRet
    /\ converted = {}
    /\ actOks = 0
    /\ last = NoLast
    /\ shut = NoReq
    /\ undelivered = {}
    /\ shadow = device
    /\ \E keep_rds \in KeepLists : fk = [NoFork EXCEPT !.keep = keep_rds]
    /\ log = {}
    /\ bat = BatNew

\* new_proxied_echo_device: the device is an EchoDevice.
Init == InitWith(EchoNew)

\* Mutant: the closure enters child_proc right after the fork.
AfterForkSkipsHook == "await"

\* Where the forked child stands when jail.fork has returned 0 in it: in
\* post_fork_cb, before device.on_sandboxed().
AfterFork == "forked"

\* ChildProcIntf::new succeeds: Tube::pair, the keep-list, fork_process; the
\* parent keeps parent_tube and the pid.  jail.fork applies the jail's policy
\* to the child and closes what the list does not name.
LaunchOk ==
    /\ launch = "init"
    /\ launch' = "ok"
    /\ cpc' = AfterFork
    /\ childEnd' = HoldersAfterFork
    /\ ppc' = [ppc EXCEPT ![1] = "held"]
    /\ \E child_tube \in Fds, swap \in BOOLEAN, uffd \in Fds :
        LET sender == IF swap THEN <<uffd>> ELSE <<>> IN
        /\ swap \/ uffd = child_tube
        /\ fk' = [keep |-> fk.keep, tube |-> child_tube, sender |-> sender,
                  jail |-> JailFds(KeepRdsForFork(fk.keep, child_tube, sender)),
                  swap |-> swap, trace |-> <<"fork">>]
    /\ ret' = NoRet
    /\ log' = {}
    /\ last' = NoLast
    /\ UNCHANGED <<exitCode, dev, p2c, c2p, pend, callbuf, converted, actOks,
                   shadow, shut,
                   undelivered, bat>>

\* Mutant: the fork succeeded and a later step of new fails: the child is
\* left running.
LaunchErrLeavesChild ==
    /\ launch = "init"
    /\ launch' = "err"
    /\ cpc' = AfterFork
    /\ childEnd' = HoldersAfterFork
    /\ ret' = NoRet
    /\ fk' = [Settled(fk) EXCEPT !.trace = <<"fork">>]
    /\ log' = {}
    /\ last' = NoLast
    /\ UNCHANGED <<exitCode, dev, p2c, c2p, ppc, pend, callbuf,
                   converted, actOks, shut, shadow,
                   undelivered, bat>>

\* ChildProcIntf::new fails: Tube::pair()?, prepare_fork()? or
\* fork_process(..)? (jail.fork(..)?) returns the error; both Tubes are
\* dropped and no process was forked.
LaunchErr ==
    /\ launch = "init"
    /\ launch' = "err"
    /\ ret' = NoRet
    /\ fk' = Settled(fk)
    /\ log' = {}
    /\ last' = NoLast
    /\ UNCHANGED <<cpc, exitCode, dev, p2c, c2p, childEnd, ppc, pend, callbuf,
                   converted, actOks, shut, shadow,
                   undelivered, bat>>

\* serde duplicates a ChildProcIntf that is not yet a ProxyDevice.
Duplicate(c) ==
    /\ ppc[c] = "held"
    /\ \E n \in Copies :
        /\ ppc[n] = "none"
        /\ \A m \in 1..(n - 1) : ppc[m] # "none"
        /\ ppc' = [ppc EXCEPT ![n] = "held"]
    /\ ret' = NoRet
    /\ fk' = Settled(fk)
    /\ log' = {}
    /\ last' = NoLast
    /\ UNCHANGED <<launch, cpc, exitCode, dev, p2c, c2p, childEnd, pend,
                   callbuf, converted, actOks, shadow, shut,
                   undelivered, bat>>

\* A copy is dropped while it is still a ChildProcIntf: no message is sent.
DropDescriptor(c) ==
    /\ ppc[c] = "held"
    /\ ppc' = [ppc EXCEPT ![c] = "gone"]
    /\ c2p' = CloseParentCopy(c, c2p)
    /\ ret' = NoRet
    /\ fk' = Settled(fk)
    /\ log' = {}
    /\ last' = NoLast
    /\ UNCHANGED <<launch, cpc, exitCode, dev, p2c, childEnd, pend, callbuf,
                   converted, actOks, shut, shadow,
                   undelivered, bat>>

\* The process (or thread) holding copy c ends without running Drop: its
\* descriptor of the parent-side endpoint is closed by the kernel.
HolderDies(c) ==
    /\ Live(ppc[c])
    /\ ppc' = [ppc EXCEPT ![c] = "gone"]
    /\ pend' = [pend EXCEPT ![c] = NoReq]
    /\ callbuf' = [callbuf EXCEPT ![c] = <<>>]
    /\ c2p' = CloseParentCopy(c, c2p)
    /\ undelivered' = undelivered \ {c}
    /\ ret' = NoRet
    /\ fk' = Settled(fk)
    /\ log' = {}
    /\ last' = NoLast
    /\ UNCHANGED <<launch, cpc, exitCode, dev, p2c, childEnd, converted,
                   actOks, shadow, shut, bat>>

\* ------------------------------------------------- TryFrom<ChildProcIntf>

\* Mutant: try_from returns the ProxyDevice without waiting for the answer.
TryFromSendNoWait(c) ==
    /\ ppc[c] = "held"
    /\ CanSend
    /\ ChildOpen
    /\ p2c' = Append(p2c, Req("Activate", 0, <<>>, 0, c))
    /\ ppc' = [ppc EXCEPT ![c] = "idle"]
    /\ converted' = converted \cup {c}
    /\ ret' = NoRet
    /\ fk' = Settled(fk)
    /\ log' = {}
    /\ last' = NoLast
    /\ UNCHANGED <<launch, cpc, exitCode, dev, c2p, childEnd, pend, callbuf,
                   actOks, shadow, shut, undelivered, bat>>

\* child_proc_intf.tube.send(&Command::Activate)?
TryFromSend(c) ==
    /\ ppc[c] = "held"
    /\ CanSend
    /\ LET req == Req("Activate", 0, <<>>, 0, c) IN
       IF ChildOpen
       THEN /\ p2c' = Append(p2c, req)
            /\ ppc' = [ppc EXCEPT ![c] = "act_wait"]
            /\ pend' = [pend EXCEPT ![c] = req]
            /\ c2p' = c2p
       ELSE \* Err: the ChildProcIntf is dropped with the error
            /\ ppc' = [ppc EXCEPT ![c] = "failed"]
            /\ c2p' = CloseParentCopy(c, c2p)
            /\ UNCHANGED <<p2c, pend>>
    /\ ret' = NoRet
    /\ fk' = Settled(fk)
    /\ log' = {}
    /\ last' = NoLast
    /\ UNCHANGED <<launch, cpc, exitCode, dev, childEnd, callbuf, converted,
                   actOks, shadow, shut,
                   undelivered, bat>>

\* The match on the received result: only CommandResult::Ok makes a
\* ProxyDevice.
ActivationAccepted(r) == r.type = "Ok"

\* Mutant: a failed conversion sends Shutdown, as the Drop of a ProxyDevice
\* does.
TryFromRecvShutsDown(c) ==
    /\ ppc[c] = "act_wait"
    /\ c2p # <<>> \/ ~ChildOpen
    /\ IF c2p # <<>> /\ ActivationAccepted(Head(c2p))
       THEN /\ ppc' = [ppc EXCEPT ![c] = "idle"]
            /\ pend' = [pend EXCEPT ![c] = NoReq]
            /\ converted' = converted \cup {c}
            /\ c2p' = Tail(c2p)
            /\ p2c' = p2c
       ELSE /\ ppc' = [ppc EXCEPT ![c] = "failed"]
            /\ pend' = [pend EXCEPT ![c] = NoReq]
            /\ converted' = converted
            /\ c2p' = CloseParentCopy(c, IF c2p # <<>> THEN Tail(c2p) ELSE c2p)
            /\ ParentSend(Req("Shutdown", 0, <<>>, 0, c))
    /\ ret' = NoRet
    /\ fk' = Settled(fk)
    /\ log' = {}
    /\ last' = NoLast
    /\ UNCHANGED <<launch, cpc, exitCode, dev, childEnd, callbuf, actOks,
                   shadow, shut, undelivered, bat>>

\* match child_proc_intf.tube.recv()? { CommandResult::Ok => Ok(Self{..}),
\*                                       _ => Err(ActivatingProxyDevice) }
TryFromRecv(c) ==
    /\ ppc[c] = "act_wait"
    /\ c2p # <<>> \/ ~ChildOpen
    /\ pend' = [pend EXCEPT ![c] = NoReq]
    /\ IF c2p # <<>> /\ ActivationAccepted(Head(c2p))
       THEN /\ ppc' = [ppc EXCEPT ![c] = "idle"]
            /\ converted' = converted \cup {c}
            /\ c2p' = Tail(c2p)
       ELSE \* Err: the ChildProcIntf is dropped with the error
            /\ ppc' = [ppc EXCEPT ![c] = "failed"]
            /\ converted' = converted
            /\ c2p' = CloseParentCopy(c, IF c2p # <<>> THEN Tail(c2p) ELSE c2p)
    /\ ret' = NoRet
    /\ fk' = Settled(fk)
    /\ log' = {}
    /\ last' = NoLast
    /\ UNCHANGED <<launch, cpc, exitCode, dev, p2c, childEnd, callbuf, actOks,
                   shadow, shut,
                   undelivered, bat>>

\* ------------------------------------------------------------- child_proc

\* The forked process ends: the kernel closes its descriptors, and with the
\* last holder of the child-side endpoint the unread commands go.
ChildExit(code, q) ==
    /\ cpc' = "exited"
    /\ exitCode' = code
    /\ childEnd' = childEnd \ {"child"}
    /\ p2c' = IF childEnd \ {"child"} = {} THEN <<>> ELSE q

\* The device-model method child_proc invokes for a command received in
\* `state` ("none": no method; "drop": the explicit drop(device)).
DeviceCall(state, cmd) ==
    CASE state # "active" -> "none"
      [] cmd = "Read" -> "read"
      [] cmd = "Write" -> "write"
      [] cmd = "ReadConfig" -> "config_register_read"
      [] cmd = "WriteConfig" -> "config_register_write"
      [] cmd = "InitPciConfigMapping" -> "init_pci_config_mapping"
      [] cmd = "ReadVirtualConfig" -> "virtual_config_register_read"
      [] cmd = "WriteVirtualConfig" -> "virtual_config_register_write"
      [] cmd = "DestroyDevice" -> "destroy_device"
      [] cmd = "Shutdown" -> "drop"
      [] cmd = "GetRanges" -> "get_ranges"
      [] cmd = "Snapshot" -> "snapshot"
      [] cmd = "Restore" -> "restore"
      [] cmd = "Sleep" -> "sleep"
      [] cmd = "Wake" -> "wake"
      [] OTHER -> "none"

\* Mutant: the device is handed the whole inline buffer.
DeviceArgsWholeBuffer(req) ==
    [info |-> req.info,
     data |-> IF req.cmd = "Read" THEN Pad(<<>>, DATA_BUF_LEN) ELSE req.data]

\* What child_proc hands the device for Command::Read and Command::Write:
\* device.read(info, &mut buffer[0..len as usize]) with buffer = [0u8; 8],
\* device.write(info, &data[0..len]).
DeviceArgs(req) ==
    [info |-> req.info,
     data |-> IF req.cmd = "Read"
              THEN Slice(Pad(<<>>, DATA_BUF_LEN), req.len)
              ELSE Slice(req.data, req.len)]

Handled(req, state, sends) ==
    [cmd |-> req.cmd, state |-> state, sends |-> sends,
     call |-> DeviceCall(state, req.cmd),
     args |-> IF DeviceCall(state, req.cmd) \in {"read", "write"}
              THEN DeviceArgs(req)
              ELSE NoArgs]

\* Mutant: a second Activate sends child_proc back to wait for activation.
ChildNextReactivate(state, ev) ==
    CASE state = "await" /\ ev = "Activate" -> "active"
      [] state = "await" -> "exited"
      [] state = "active" /\ ev = "RecvErr" -> "exited"
      [] state = "active" /\ ev = "Activate" -> "await"
      [] state = "active" /\ ev = "Shutdown" -> "shutdown"
      [] state = "active" -> "active"
      [] OTHER -> "exited"

\* Mutant: a command that arrives before Activate is taken as the activation.
ChildNextLenient(state, ev) ==
    CASE state = "await" /\ ev \in {"RecvErr", "SendErr"} -> "exited"
      [] state = "await" -> "active"
      [] state = "active" /\ ev \in {"RecvErr", "Activate"} -> "exited"
      [] state = "active" /\ ev = "Shutdown" -> "shutdown"
      [] state = "active" -> "active"
      [] OTHER -> "exited"

\* Mutant: a second Activate is ignored and the loop goes on.
ChildNextIgnoresActivate(state, ev) ==
    CASE state = "await" /\ ev = "Activate" -> "active"
      [] state = "await" -> "exited"
      [] state = "active" /\ ev = "RecvErr" -> "exited"
      [] state = "active" /\ ev = "Shutdown" -> "shutdown"
      [] state = "active" -> "active"
      [] OTHER -> "exited"

\* Mutant: an error of the device's snapshot, restore, sleep or wake ends
\* child_proc.
ChildNextDiesOnDeviceError(state, ev) ==
    CASE state = "await" /\ ev = "Activate" -> "active"
      [] state = "await" -> "exited"
      [] state = "active" /\ ev \in {"RecvErr", "Activate"} -> "exited"
      [] state = "active" /\ ev \in {"Snapshot", "Restore", "Sleep", "Wake"} ->
            "exited"
      [] state = "active" /\ ev = "Shutdown" -> "shutdown"
      [] state = "active" -> "active"
      [] OTHER -> "exited"

\* Mutant: Command::DestroyDevice ends child_proc.
ChildNextEndsOnDestroy(state, ev) ==
    CASE state = "await" /\ ev = "Activate" -> "active"
      [] state = "await" -> "exited"
      [] state = "active" /\ ev \in {"RecvErr", "Activate", "DestroyDevice"} ->
            "exited"
      [] state = "active" /\ ev = "Shutdown" -> "shutdown"
      [] state = "active" -> "active"
      [] OTHER -> "exited"

\* Mutant: after Command::Shutdown the loop goes on.
ChildNextShutdownContinues(state, ev) ==
    CASE state = "await" /\ ev = "Activate" -> "active"
      [] state = "await" -> "exited"
      [] state = "active" /\ ev \in {"RecvErr", "Activate"} -> "exited"
      [] state = "active" -> "active"
      [] OTHER -> "exited"

\* child_proc's control flow: where it stands after event ev in `state`.
\* The events: a received command (its name), "RecvErr" (tube.recv() failed),
\* "SendErr" (the activation result could not be sent), "Acked" (the
\* Shutdown result was sent or not, and child_proc returned).
ChildNext(state, ev) ==
    CASE state = "await" /\ ev = "Activate" -> "active"
      [] state = "await" -> "exited"
      [] state = "active" /\ ev \in {"RecvErr", "Activate"} -> "exited"
      [] state = "active" /\ ev = "Shutdown" -> "shutdown"
      [] state = "active" -> "active"
      [] OTHER -> "exited"

\* Mutant: the result of sending the Shutdown acknowledgment is unwrapped, and
\* the child panics.
ChildExitCodeAckUnwrapped(state, ev) ==
    IF \/ state = "await" /\ ev \notin {"Activate", "RecvErr", "SendErr"}
       \/ state = "active" /\ ev = "Activate"
       \/ state = "shutdown"
    THEN EXIT_PANIC
    ELSE EXIT_OK

\* Mutant: fork_process has no ExitGuard, and a panic of post_fork_cb unwinds
\* to the process::exit(0) of a normal return.
ChildExitCodeUnguarded(state, ev) == EXIT_OK

\* Mutant: child_proc unwraps tube.recv(), and a receive failure panics.
ChildExitCodeRecvUnwrapped(state, ev) ==
    IF \/ state = "await" /\ ev \notin {"Activate", "SendErr"}
       \/ state = "active" /\ ev \in {"Activate", "RecvErr"}
    THEN EXIT_PANIC
    ELSE EXIT_OK

\* The exit code of the forked process (fork_process): 101 after a panic of
\* post_fork_cb, 0 when it returns.
ChildExitCode(state, ev) ==
    IF \/ state = "await" /\ ev \notin {"Activate", "RecvErr", "SendErr"}
       \/ state = "active" /\ ev = "Activate"
    THEN EXIT_PANIC
    ELSE EXIT_OK

\* The child moves on after event ev, q being what is left to receive.
ChildGoto(ev, q) ==
    IF ChildNext(cpc, ev) = "exited"
    THEN ChildExit(ChildExitCode(cpc, ev), q)
    ELSE /\ cpc' = ChildNext(cpc, ev)
         /\ p2c' = q
         /\ UNCHANGED <<exitCode, childEnd>>

\* The device once child_proc is where ChildGoto takes it: leaving
\* child_proc (return, break, panic) drops the device it owns.
DevAtGoto(ev, d) == IF ChildNext(cpc, ev) = "exited" THEN Dropped(d) ELSE d

\* post_fork_cb up to child_proc: with a swap sender on_process_forked, whose
\* failure ends the process with libc::exit(1); then device.on_sandboxed()
\* (BusDevice's default, which EchoDevice keeps) and child_proc is entered.
ChildOnSandboxed ==
    /\ cpc = "forked"
    /\ \E forked_ok \in BOOLEAN :
        /\ forked_ok \/ fk.swap
        /\ IF forked_ok
           THEN /\ cpc' = "await"
                /\ fk' = [Settled(fk) EXCEPT !.swap = FALSE,
                                             !.trace = Append(@, "on_sandboxed")]
                /\ UNCHANGED <<exitCode, childEnd, p2c, dev>>
           ELSE /\ ChildExit(EXIT_FAILURE, p2c)
                /\ fk' = [Settled(fk) EXCEPT !.swap = FALSE]
                /\ dev' = dev
    /\ ret' = NoRet
    /\ log' = {}
    /\ last' = NoLast
    /\ UNCHANGED <<launch, c2p, ppc, pend, callbuf, converted, actOks, shadow,
                   shut, undelivered, bat>>

\* The first match of child_proc: wait for the activation signal.
ChildAwaitActivation ==
    /\ cpc = "await"
    /\ p2c # <<>> \/ ~ParentOpen
    /\ IF p2c = <<>>
       THEN \* Err(e): drop(device); return
            /\ dev' = DevAtGoto("RecvErr", dev)
            /\ ChildGoto("RecvErr", <<>>)
            /\ last' = NoLast
            /\ UNCHANGED <<c2p, actOks>>
       ELSE LET req == Head(p2c) IN
            IF req.cmd = "Activate"
            THEN LET ev == IF ParentOpen THEN "Activate" ELSE "SendErr" IN
                 /\ ChildSend(Res("Ok", <<>>, 0, TRUE, "Activate", req.src))
                 /\ actOks' = actOks + 1
                 /\ last' = Handled(req, "await", <<"Ok">>)
                 /\ dev' = DevAtGoto(ev, dev)
                 /\ ChildGoto(ev, Tail(p2c))
            ELSE \* Ok(cmd): panic!
                 /\ dev' = DevAtGoto(req.cmd, dev)
                 /\ ChildGoto(req.cmd, Tail(p2c))
                 /\ last' = Handled(req, "await", <<>>)
                 /\ UNCHANGED <<c2p, actOks>>
    /\ ret' = NoRet
    /\ fk' = Settled(fk)
    /\ log' = {}
    /\ UNCHANGED <<launch, ppc, pend, callbuf, converted, shadow, shut,
                   undelivered, bat>>

\* BusDevice's default methods, which EchoDevice does not override.
BusDeviceDefaultConfig == 0

\* Suspendable's default methods: Err(anyhow!("... not implemented ...")).
SuspendableDefaultOk == FALSE

\* Mutant: Command::Write is taken off the Tube and not given to the device.
DevAfterWriteLost(req, d) ==
    CASE req.cmd = "WriteConfig" -> EchoConfigWrite(d, Slice(req.data, req.len))
      [] OTHER -> d

\* The device after the call child_proc makes for a command.
DevAfter(req, d) ==
    CASE req.cmd = "Read" ->
            DevRead(d, DeviceArgs(req).info, DeviceArgs(req).data).dev
      [] req.cmd = "Write" ->
            DevWrite(d, DeviceArgs(req).info, DeviceArgs(req).data)
      [] req.cmd = "WriteConfig" /\ ~IsBattery(d) ->
            EchoConfigWrite(d, Slice(req.data, req.len))
      [] OTHER -> d

\* Mutant: the arm fills the lists of added ranges from the removed ones
\* and the other way round.
WriteConfigResultSwapped(res) ==
    [mmio_remove |-> res.mmio_add, mmio_add |-> res.mmio_remove,
     io_remove |-> res.io_add, io_add |-> res.io_remove,
     removed_pci_devices |-> res.removed_pci_devices]

\* The Command::WriteConfig arm: CommandResult::WriteConfigResult built field
\* by field from the ConfigWriteResult the device returned.
WriteConfigResultOf(res) ==
    [mmio_remove |-> res.mmio_remove, mmio_add |-> res.mmio_add,
     io_remove |-> res.io_remove, io_add |-> res.io_add,
     removed_pci_devices |-> res.removed_pci_devices]

\* The arms of the match of child_proc's loop: the CommandResult sent for a
\* command (NoRes: none is sent).
ReplyTable(req, d) ==
    CASE req.cmd = "Read" ->
            \* let mut buffer = [0u8; 8]; device.read(info, &mut buffer[0..len])
            LET buffer == Pad(<<>>, DATA_BUF_LEN)
                args == DeviceArgs(req)
            IN
            Res("ReadResult",
                DevRead(d, args.info, args.data).data
                    \o SubSeq(buffer, Len(args.data) + 1, DATA_BUF_LEN),
                0, TRUE, req.cmd, req.src)
      [] req.cmd = "Write" -> NoRes
      [] req.cmd = "ReadConfig" ->
            Res("ReadConfigResult", <<>>,
                IF IsBattery(d) THEN BusDeviceDefaultConfig ELSE EchoConfigRead(d),
                TRUE, req.cmd, req.src)
      [] req.cmd = "WriteConfig" ->
            LET res == DevConfigWriteResult(d, Slice(req.data, req.len)) IN
            [Res("WriteConfigResult", <<>>, 0, TRUE, req.cmd, req.src)
                EXCEPT !.cw = WriteConfigResultOf(res), !.dev_cw = res]
      [] req.cmd = "InitPciConfigMapping" ->
            Res("InitPciConfigMappingResult", <<>>, 0,
                DevInitPciConfigMapping(d), req.cmd, req.src)
      [] req.cmd = "ReadVirtualConfig" ->
            Res("ReadVirtualConfigResult", <<>>, BusDeviceDefaultConfig, TRUE,
                req.cmd, req.src)
      [] req.cmd = "WriteVirtualConfig" ->
            Res("Ok", <<>>, 0, TRUE, req.cmd, req.src)
      [] req.cmd = "DestroyDevice" -> NoRes
      [] req.cmd = "GetRanges" ->
            Res("GetRangesResult", <<>>, 0, TRUE, req.cmd, req.src)
      [] req.cmd = "Snapshot" ->
            Res("SnapshotResult", <<>>, 0, SuspendableDefaultOk, req.cmd, req.src)
      [] req.cmd = "Restore" ->
            Res("RestoreResult", <<>>, 0, SuspendableDefaultOk, req.cmd, req.src)
      [] req.cmd = "Sleep" ->
            Res("SleepResult", <<>>, 0, SuspendableDefaultOk, req.cmd, req.src)
      [] req.cmd = "Wake" ->
            Res("WakeResult", <<>>, 0, SuspendableDefaultOk, req.cmd, req.src)
      [] OTHER -> NoRes

\* Mutant: Command::WriteVirtualConfig is not answered.
ReplyNoVirtualAck(req, d) ==
    IF req.cmd = "WriteVirtualConfig" THEN NoRes ELSE ReplyTable(req, d)

\* Mutant: Command::Write is answered with CommandResult::Ok.
ReplyAcksWrite(req, d) ==
    IF req.cmd = "Write"
    THEN Res("Ok", <<>>, 0, TRUE, req.cmd, req.src)
    ELSE ReplyTable(req, d)

\* The match of child_proc's loop: the CommandResult it sends for a command.
Reply(req, d) == ReplyTable(req, d)

\* Mutant: the device is dropped only when child_proc returns.
ShutdownKeep(d) == d

\* Command::Shutdown: drop(device) before the result is sent.
ShutdownDrop(d) == Dropped(d)

\* One turn of child_proc's loop.
ChildServe ==
    /\ cpc = "active"
    /\ p2c # <<>> \/ ~ParentOpen
    /\ IF p2c = <<>>
       THEN \* child device process failed recv: break, child_proc returns
            /\ dev' = DevAtGoto("RecvErr", dev)
            /\ ChildGoto("RecvErr", <<>>)
            /\ last' = NoLast
            /\ UNCHANGED <<c2p, shut>>
       ELSE LET req == Head(p2c) IN
            CASE req.cmd = "Activate" ->
                    \* panic!("Device shall only be activated once ...")
                    /\ dev' = DevAtGoto(req.cmd, dev)
                    /\ ChildGoto(req.cmd, Tail(p2c))
                    /\ last' = Handled(req, "active", <<>>)
                    /\ UNCHANGED <<c2p, shut>>
              [] req.cmd = "Shutdown" ->
                    /\ dev' = ShutdownDrop(dev)
                    /\ ChildGoto(req.cmd, Tail(p2c))
                    /\ last' = Handled(req, "active", <<>>)
                    /\ shut' = req
                    /\ UNCHANGED c2p
              [] OTHER ->
                    LET res == Reply(req, dev) IN
                    /\ dev' = DevAfter(req, dev)
                    /\ ChildGoto(req.cmd, Tail(p2c))
                    /\ IF res = NoRes THEN c2p' = c2p ELSE ChildSend(res)
                    /\ last' = Handled(req, "active",
                                       IF res = NoRes THEN <<>> ELSE <<res.type>>)
                    /\ UNCHANGED shut
    /\ ret' = NoRet
    /\ fk' = Settled(fk)
    /\ log' = {}
    /\ UNCHANGED <<launch, ppc, pend, callbuf, converted, actOks, shadow,
                   undelivered, bat>>

\* Command::Shutdown, after the drop: let _ = tube.send(&CommandResult::Ok);
\* return; then libc::exit(0).
ChildAckShutdown ==
    /\ cpc = "shutdown"
    /\ ChildSend(Res("Ok", <<>>, 0, TRUE, "Shutdown", shut.src))
    /\ last' = Handled(shut, "active", <<"Ok">>)
    /\ shut' = NoReq
    /\ ChildGoto("Acked", p2c)
    /\ ret' = NoRet
    /\ fk' = Settled(fk)
    /\ log' = {}
    /\ UNCHANGED <<launch, dev, ppc, pend, callbuf, converted, actOks, shadow,
                   undelivered, bat>>

\* The child process is killed by a signal (the sandbox's seccomp policy, the
\* OOM killer): no destructor runs.
ChildKilled ==
    /\ cpc \in {"forked", "await", "active", "shutdown"}
    /\ ChildExit(EXIT_KILLED, p2c)
    /\ ret' = NoRet
    /\ fk' = Settled(fk)
    /\ log' = {}
    /\ last' = NoLast
    /\ shut' = NoReq
    /\ UNCHANGED <<launch, dev, c2p, ppc, pend, callbuf, converted, actOks,
                   shadow,
                   undelivered, bat>>

\* ------------------------------------------------------------ ProxyDevice

\* The commands sent with send_no_result alone: write and destroy_device.
NoResultCmds == {"Write", "DestroyDevice"}

\* Mutant: sync_send returns without waiting for the result.
PositionNeverWaits(cmd) == "idle"

\* Mutant: write and destroy_device wait for a result as well.
PositionAlwaysWaits(cmd) == "wait"

\* The CommandResult variant each method matches on.
Expected(cmd) ==
    CASE cmd = "Read" -> "ReadResult"
      [] cmd = "ReadConfig" -> "ReadConfigResult"
      [] cmd = "WriteConfig" -> "WriteConfigResult"
      [] cmd = "InitPciConfigMapping" -> "InitPciConfigMappingResult"
      [] cmd = "ReadVirtualConfig" -> "ReadVirtualConfigResult"
      [] cmd = "GetRanges" -> "GetRangesResult"
      [] cmd = "Snapshot" -> "SnapshotResult"
      [] cmd = "Restore" -> "RestoreResult"
      [] cmd = "Sleep" -> "SleepResult"
      [] cmd = "Wake" -> "WakeResult"
      [] OTHER -> "Any"

\* A protocol failure a ProxyDevice method met, at `site` ("send": tube.send
\* failed, "recv": tube.recv failed, "match": the result is not of the
\* variant the method matches on), with what error! made of it: reported, and
\* label, whether the report names self.debug_label.
Failure(site, cmd, reported, label) ==
    [site |-> site, cmd |-> cmd, reported |-> reported, label |-> label]

\* Mutant: send_no_result drops the error of tube.send.
SendLogSilent(req, sent) ==
    IF sent THEN {} ELSE {Failure("send", req.cmd, FALSE, FALSE)}

\* send_no_result: if let Err(e) = res { error!("failed write to child device
\* process {}: {}", self.child_proc_intf.debug_label, e) }; sent tells
\* whether tube.send returned Ok.
SendLog(req, sent) ==
    IF sent THEN {} ELSE {Failure("send", req.cmd, TRUE, TRUE)}

\* sync_send's match on tube.recv(): Err(e) => error!("failed to read result
\* of {:?} from child device process {}: {}", cmd, debug_label, e); and the
\* method's own match on the result, whose else / catch-all arm returns the
\* default (or an Err that does not name the label) and reports nothing.
RecvLog(req, res) ==
    IF res = NoRes
    THEN {Failure("recv", req.cmd, TRUE, TRUE)}
    ELSE IF Expected(req.cmd) # "Any" /\ res.type # Expected(req.cmd)
         THEN {Failure("match", req.cmd, FALSE, FALSE)}
         ELSE {}

\* Where a ProxyDevice method stands once its command is sent: sync_send
\* goes on to tube.recv(), send_no_result returns.
PositionAfterSend(cmd) == IF cmd \in NoResultCmds THEN "idle" ELSE "wait"

\* send_no_result(cmd), and for sync_send the call now blocks in recv.  buf is
\* the caller's data buffer; sh is the in-process device after the same call.
CallReq(c, req, buf, sh) ==
    /\ ppc[c] = "idle"
    /\ CanSend
    /\ LET cmd == req.cmd IN
       /\ ParentSend(req)
       /\ ppc' = [ppc EXCEPT ![c] = PositionAfterSend(cmd)]
       /\ pend' = [pend EXCEPT ![c] =
                      IF PositionAfterSend(cmd) = "wait" THEN req ELSE NoReq]
       /\ callbuf' = [callbuf EXCEPT ![c] =
                      IF PositionAfterSend(cmd) = "wait" THEN buf ELSE <<>>]
       /\ undelivered' =
            IF PositionAfterSend(cmd) = "wait" /\ ~ChildOpen
            THEN undelivered \cup {c}
            ELSE undelivered
    /\ shadow' = sh
    /\ ret' = NoRet
    /\ fk' = Settled(fk)
    /\ log' = SendLog(req, ChildOpen)
    /\ last' = NoLast
    /\ UNCHANGED <<launch, cpc, exitCode, dev, c2p, childEnd, converted,
                   actOks, shut, bat>>

\* The methods whose Command is no bus access.
Call(c, cmd, len, data, num, buf, sh) ==
    CallReq(c, Req(cmd, len, data, num, c), buf, sh)

\* ProxyDevice::read(info, data), data holding b when the call is made.
Read(c) ==
    \E b \in Bytes :
        CallReq(c, ReqAccess("Read", NoInfo, <<b>>, c), <<b>>, shadow)

\* ProxyDevice::write(info, data)
Write(c) ==
    \E v \in Bytes :
        CallReq(c, ReqAccess("Write", NoInfo, <<v>>, c), <<>>,
                EchoWrite(shadow, <<v>>))

\* The bus accesses made of a proxied GoldfishBattery: its interrupt-enable
\* and capacity registers, at the device's base address.
AccessInfos ==
    {BusAccessInfo(o, o, 0) : o \in {BATTERY_INT_ENABLE, BATTERY_CAPACITY}}

\* The slices a caller passes: 1 to 8 bytes, all of one value.
AccessSlices == {[i \in 1..n |-> b] : n \in 1..DATA_BUF_LEN, b \in Bytes}

\* ProxyDevice::read(info, data) for a slice of any length a bus access has.
ReadAccess(c) ==
    \E info \in AccessInfos, data \in AccessSlices :
        CallReq(c, ReqAccess("Read", info, data, c), data,
                DevRead(shadow, info, data).dev)

\* ProxyDevice::write(info, data) for a slice of any length a bus access has.
WriteAccess(c) ==
    \E info \in AccessInfos, data \in AccessSlices :
        CallReq(c, ReqAccess("Write", info, data, c), <<>>,
                DevWrite(shadow, info, data))

\* ProxyDevice::config_register_write(reg_idx, offset, data)
ConfigRegisterWrite(c) ==
    \E v \in Bytes :
        Call(c, "WriteConfig", 1, Pad(<<v>>, CONFIG_BUF_LEN), 0, <<>>,
             EchoConfigWrite(shadow, <<v>>))

\* ProxyDevice::config_register_read(reg_idx)
ConfigRegisterRead(c) == Call(c, "ReadConfig", 0, <<>>, 0, <<>>, shadow)

\* ProxyDevice::init_pci_config_mapping: when shmem.try_clone() fails,
\* error!("Failed to clone pci config mapping shmem") and return false;
\* otherwise sync_send.
InitPciConfigMapping(c) ==
    \E cloned \in BOOLEAN :
        IF cloned
        THEN Call(c, "InitPciConfigMapping", 0, <<>>, 0, <<>>, shadow)
        ELSE /\ ppc[c] = "idle"
             /\ ret' = [NoRet EXCEPT !.c = c, !.cloneErr = TRUE]
             /\ log' = {}
             /\ last' = NoLast
             /\ fk' = Settled(fk)
             /\ UNCHANGED <<launch, cpc, exitCode, dev, p2c, c2p, childEnd,
                            ppc, pend, callbuf, converted, actOks, shut,
                            undelivered, shadow, bat>>

\* ProxyDevice::virtual_config_register_write(reg_idx, value)
VirtualConfigRegisterWrite(c) ==
    \E v \in Bytes : Call(c, "WriteVirtualConfig", 0, <<>>, v, <<>>, shadow)

\* ProxyDevice::virtual_config_register_read(reg_idx)
VirtualConfigRegisterRead(c) ==
    Call(c, "ReadVirtualConfig", 0, <<>>, 0, <<>>, shadow)

\* ProxyDevice::get_ranges
GetRanges(c) == Call(c, "GetRanges", 0, <<>>, 0, <<>>, shadow)

\* ProxyDevice::destroy_device
DestroyDevice(c) == Call(c, "DestroyDevice", 0, <<>>, 0, <<>>, shadow)

\* Suspendable for ProxyDevice: snapshot, restore, sleep, wake
Snapshot(c) == Call(c, "Snapshot", 0, <<>>, 0, <<>>, shadow)
Restore(c) == Call(c, "Restore", 0, <<>>, 0, <<>>, shadow)
Sleep(c) == Call(c, "Sleep", 0, <<>>, 0, <<>>, shadow)
Wake(c) == Call(c, "Wake", 0, <<>>, 0, <<>>, shadow)

\* Drop for ProxyDevice: self.sync_send(&Command::Shutdown)
DropProxy(c) == Call(c, "Shutdown", 0, <<>>, 0, <<>>, shadow)

\* Mutant: a read that got no ReadResult zeroes the caller's buffer.
ReadOutcomeZeroFill(res, buf) ==
    IF res.type = "ReadResult"
    THEN Slice(res.bytes, Len(buf))
    ELSE [i \in 1..Len(buf) |-> 0]

\* ProxyDevice::read after sync_send: the caller's buffer when the method
\* returns.  Only a ReadResult is copied into it.
ReadOutcome(res, buf) ==
    IF res.type = "ReadResult" THEN Slice(res.bytes, Len(buf)) ELSE buf

\* Mutant: the value of the result is not used.
NumOutcomeZero(cmd, res) == 0

\* The u32 config_register_read and virtual_config_register_read return.
NumOutcome(cmd, res) == IF res.type = Expected(cmd) THEN res.num ELSE 0

\* Mutant: any result that carries true / Ok counts as success, whatever
\* its variant.
OkOutcomeAnyResult(cmd, res) == res.type # "None" /\ res.ok

\* Mutant: a call that got no result at all reports success.
OkOutcomeOnNone(cmd, res) ==
    res.type = "None" \/ (res.type = Expected(cmd) /\ res.ok)

\* Mutant: a result of the expected variant counts as success, whatever it
\* carries.
OkOutcomeIgnoresFlag(cmd, res) == res.type = Expected(cmd)

\* Whether the method reports success: init_pci_config_mapping's bool, the
\* Ok of snapshot, restore, sleep and wake.
OkOutcome(cmd, res) == res.type = Expected(cmd) /\ res.ok

\* Mutant: the list of whatever result arrived is returned.
ListOutcomeAnyVariant(cmd, res) == res.bytes

\* The list get_ranges returns and the ranges of the ConfigWriteResult
\* config_register_write returns (carried in the result's bytes):
\* Default::default() unless the expected variant arrived.
ListOutcome(cmd, res) ==
    IF cmd \in {"GetRanges", "WriteConfig"} /\ res.type = Expected(cmd)
    THEN res.bytes
    ELSE <<>>

\* The ConfigWriteResult config_register_write returns: built field by field
\* from a WriteConfigResult, Default::default() otherwise.
ConfigWriteOutcome(cmd, res) ==
    IF cmd = "WriteConfig" /\ res.type = "WriteConfigResult"
    THEN [mmio_remove |-> res.cw.mmio_remove, mmio_add |-> res.cw.mmio_add,
          io_remove |-> res.cw.io_remove, io_add |-> res.cw.io_add,
          removed_pci_devices |-> res.cw.removed_pci_devices]
    ELSE DefaultConfigWriteResult

\* What the call of copy c returns, res being what sync_send returned (NoRes
\* for None).
Outcome(c, req, res, buf) ==
    [c |-> c, cmd |-> req.cmd, got |-> res.type, re |-> res.re,
     src |-> res.src, buf0 |-> buf,
     out |-> IF req.cmd = "Read" THEN ReadOutcome(res, buf) ELSE <<>>,
     exp |-> IF req.cmd = "Read"
             THEN DevRead(shadow, req.info, buf).data
             ELSE <<>>,
     num |-> NumOutcome(req.cmd, res),
     expNum |-> IF req.cmd = "ReadConfig" THEN EchoConfigRead(shadow) ELSE 0,
     ok |-> OkOutcome(req.cmd, res),
     childGone |-> cpc = "exited",
     resOk |-> res.ok,
     sendErr |-> c \in undelivered,
     resNum |-> res.num,
     resList |-> res.bytes,
     list |-> ListOutcome(req.cmd, res),
     cw |-> ConfigWriteOutcome(req.cmd, res),
     devCw |-> res.dev_cw,
     cloneErr |-> FALSE]

\* Mutant: tube.recv() gives up when nothing has arrived, and sync_send
\* returns None.
SyncRecvTimesOut(c) ==
    /\ ppc[c] = "wait"
    /\ LET res == IF c2p # <<>> THEN Head(c2p) ELSE NoRes
           rest == IF c2p # <<>> THEN Tail(c2p) ELSE c2p
       IN
       /\ ret' = Outcome(c, pend[c], res, callbuf[c])
       /\ log' = RecvLog(pend[c], res)
       /\ IF pend[c].cmd = "Shutdown"
          THEN /\ ppc' = [ppc EXCEPT ![c] = "gone"]
               /\ c2p' = CloseParentCopy(c, rest)
          ELSE /\ ppc' = [ppc EXCEPT ![c] = "idle"]
               /\ c2p' = rest
    /\ pend' = [pend EXCEPT ![c] = NoReq]
    /\ callbuf' = [callbuf EXCEPT ![c] = <<>>]
    /\ undelivered' = undelivered \ {c}
    /\ last' = NoLast
    /\ fk' = Settled(fk)
    /\ UNCHANGED <<launch, cpc, exitCode, dev, p2c, childEnd, converted,
                   actOks, shut, shadow, bat>>

\* sync_send's tube.recv() returns: a result, or an error once the child-side
\* endpoint is closed and nothing is left to read.  The method returns; after
\* Drop the ProxyDevice, and its endpoint, are gone.
SyncRecv(c) ==
    /\ ppc[c] = "wait"
    /\ c2p # <<>> \/ ~ChildOpen
    /\ LET res == IF c2p # <<>> THEN Head(c2p) ELSE NoRes
           rest == IF c2p # <<>> THEN Tail(c2p) ELSE c2p
       IN
       /\ ret' = Outcome(c, pend[c], res, callbuf[c])
       /\ log' = RecvLog(pend[c], res)
       /\ IF pend[c].cmd = "Shutdown"
          THEN /\ ppc' = [ppc EXCEPT ![c] = "gone"]
               /\ c2p' = CloseParentCopy(c, rest)
          ELSE /\ ppc' = [ppc EXCEPT ![c] = "idle"]
               /\ c2p' = rest
    /\ pend' = [pend EXCEPT ![c] = NoReq]
    /\ callbuf' = [callbuf EXCEPT ![c] = <<>>]
    /\ undelivered' = undelivered \ {c}
    /\ last' = NoLast
    /\ fk' = Settled(fk)
    /\ UNCHANGED <<launch, cpc, exitCode, dev, p2c, childEnd, converted,
                   actOks, shut, shadow, bat>>

\* ------------------------------------------------------ the specification

Next ==
    \/ LaunchOk
    \/ LaunchErr
    \/ ChildOnSandboxed
    \/ ChildAwaitActivation
    \/ ChildServe
    \/ ChildAckShutdown
    \/ ChildKilled
    \/ \E c \in Copies :
        \/ Duplicate(c)
        \/ DropDescriptor(c)
        \/ HolderDies(c)
        \/ TryFromSend(c)
        \/ TryFromRecv(c)
        \/ Read(c)
        \/ Write(c)
        \/ ConfigRegisterWrite(c)
        \/ ConfigRegisterRead(c)
        \/ InitPciConfigMapping(c)
        \/ VirtualConfigRegisterWrite(c)
        \/ VirtualConfigRegisterRead(c)
        \/ GetRanges(c)
        \/ DestroyDevice(c)
        \/ Snapshot(c)
        \/ Restore(c)
        \/ Sleep(c)
        \/ Wake(c)
        \/ DropProxy(c)
        \/ SyncRecv(c)

Spec == Init /\ [][Next]_vars

\* The parent's blocked tube.recv() returns once a result or the end of the
\* stream is there: the host schedules the thread.
FairSpec ==
    /\ Spec
    /\ \A c \in Copies : WF_vars(SyncRecv(c)) /\ WF_vars(TryFromRecv(c))

\* The forked process is scheduled too: child_proc takes its next step when
\* tube.recv() can return.
LiveSpec ==
    /\ FairSpec
    /\ WF_vars(ChildOnSandboxed)
    /\ WF_vars(ChildAwaitActivation)
    /\ WF_vars(ChildServe)
    /\ WF_vars(ChildAckShutdown)

\* ------------------------------------------- child_proc on an arbitrary Tube

\* enum Command: the variants.
Commands ==
    {"Activate", "Read", "Write", "ReadConfig", "WriteConfig",
     "InitPciConfigMapping", "ReadVirtualConfig", "WriteVirtualConfig",
     "DestroyDevice", "Shutdown", "GetRanges", "Snapshot", "Restore", "Sleep",
     "Wake"}

\* A Command value of variant cmd carrying the byte v where it carries data.
CommandOf(cmd, v) ==
    CASE cmd = "Read" -> Req(cmd, 1, <<>>, 0, 1)
      [] cmd = "Write" -> Req(cmd, 1, Pad(<<v>>, DATA_BUF_LEN), 0, 1)
      [] cmd = "WriteConfig" -> Req(cmd, 1, Pad(<<v>>, CONFIG_BUF_LEN), 0, 1)
      [] cmd = "WriteVirtualConfig" -> Req(cmd, 0, <<>>, v, 1)
      [] OTHER -> Req(cmd, 0, <<>>, 0, 1)

\* The holder of the parent-side endpoint writes any Command to the Tube:
\* child_proc takes whatever tube.recv() yields.
PeerSend ==
    /\ ppc[1] = "held"
    /\ ChildOpen
    /\ Len(p2c) + Len(c2p) < MaxQueue
    /\ \E cmd \in Commands, v \in Bytes :
        /\ cmd \in {"Write", "WriteConfig", "WriteVirtualConfig"} \/ v = 0
        /\ ParentSend(CommandOf(cmd, v))
    /\ ret' = NoRet
    /\ fk' = Settled(fk)
    /\ log' = {}
    /\ last' = NoLast
    /\ UNCHANGED <<launch, cpc, exitCode, dev, c2p, childEnd, ppc, pend,
                   callbuf, converted, actOks, shut, shadow,
                   undelivered, bat>>

\* The holder of the parent-side endpoint reads one CommandResult.
PeerRecv ==
    /\ ppc[1] = "held"
    /\ c2p # <<>>
    /\ c2p' = Tail(c2p)
    /\ ret' = NoRet
    /\ fk' = Settled(fk)
    /\ log' = {}
    /\ last' = NoLast
    /\ UNCHANGED <<launch, cpc, exitCode, dev, p2c, childEnd, ppc, pend,
                   callbuf, converted, actOks, shut, shadow,
                   undelivered, bat>>

\* child_proc (the three child steps) with the whole Tube as its input.
ChildProcNext ==
    \/ LaunchOk
    \/ PeerSend
    \/ PeerRecv
    \/ DropDescriptor(1)
    \/ ChildOnSandboxed
    \/ ChildAwaitActivation
    \/ ChildServe
    \/ ChildAckShutdown
    \/ ChildKilled

ChildProcSpec == Init /\ [][ChildProcNext]_vars

\* ------------------------------------------ ProxyDevice on an arbitrary Tube

\* enum CommandResult: the variants.
ResultTypes ==
    {"Ok", "ReadResult", "ReadConfigResult", "WriteConfigResult",
     "InitPciConfigMappingResult", "ReadVirtualConfigResult",
     "GetRangesResult", "SnapshotResult", "RestoreResult", "SleepResult",
     "WakeResult"}

\* A CommandResult value of variant type: v is the byte, register value or
\* range it carries, ok whether it carries true / Ok.
ResultOf(type, v, ok) ==
    CASE type = "ReadResult" ->
            Res(type, Pad(<<v>>, DATA_BUF_LEN), 0, TRUE, "None", 0)
      [] type \in {"ReadConfigResult", "ReadVirtualConfigResult"} ->
            Res(type, <<>>, v, TRUE, "None", 0)
      [] type \in {"GetRangesResult", "WriteConfigResult"} ->
            Res(type, IF v = 0 THEN <<>> ELSE <<v>>, 0, TRUE, "None", 0)
      [] type = "Ok" -> Res(type, <<>>, 0, TRUE, "None", 0)
      [] OTHER -> Res(type, <<>>, 0, ok, "None", 0)

\* The holder of the child-side endpoint writes any CommandResult to the
\* Tube: sync_send takes whatever tube.recv() yields.
PeerReply ==
    /\ ChildOpen
    /\ ParentOpen
    /\ c2p = <<>>
    /\ \E type \in ResultTypes, v \in Bytes, ok \in BOOLEAN :
        /\ ResultOf(type, v, ok) # ResultOf(type, 0, TRUE)
                \/ (v = 0 /\ ok)
        /\ c2p' = <<ResultOf(type, v, ok)>>
    /\ ret' = NoRet
    /\ fk' = Settled(fk)
    /\ log' = {}
    /\ last' = NoLast
    /\ UNCHANGED <<launch, cpc, exitCode, dev, p2c, childEnd, ppc, pend,
                   callbuf, converted, actOks, shut, shadow,
                   undelivered, bat>>

\* The holder of the child-side endpoint reads one Command.
PeerTake ==
    /\ ChildOpen
    /\ p2c # <<>>
    /\ p2c' = Tail(p2c)
    /\ ret' = NoRet
    /\ fk' = Settled(fk)
    /\ log' = {}
    /\ last' = NoLast
    /\ UNCHANGED <<launch, cpc, exitCode, dev, c2p, childEnd, ppc, pend,
                   callbuf, converted, actOks, shut, shadow,
                   undelivered, bat>>

\* The methods of one ProxyDevice with the whole Tube as their input.
ProxyNext ==
    \/ LaunchOk
    \/ PeerReply
    \/ PeerTake
    \/ ChildKilled
    \/ TryFromSend(1)
    \/ TryFromRecv(1)
    \/ Read(1)
    \/ Write(1)
    \/ ConfigRegisterWrite(1)
    \/ ConfigRegisterRead(1)
    \/ InitPciConfigMapping(1)
    \/ VirtualConfigRegisterWrite(1)
    \/ VirtualConfigRegisterRead(1)
    \/ GetRanges(1)
    \/ DestroyDevice(1)
    \/ Snapshot(1)
    \/ Restore(1)
    \/ Sleep(1)
    \/ Wake(1)
    \/ DropProxy(1)
    \/ SyncRecv(1)

ProxySpec == Init /\ [][ProxyNext]_vars

\* ------------------------------------------- the Suspendable implementations

\* What the caller holds after a call that made the device d and returned ok
\* and out; kept: the caller keeps out as its snapshot.
BatCalled(d, op, ok, out, kept) ==
    /\ bat' = [dev |-> d,
               snap |-> IF kept THEN out ELSE bat.snap,
               mods |-> IF kept \/ bat.snap = JsonNull
                        THEN 0
                        ELSE IF op = "set" /\ d.state # bat.dev.state
                             THEN IF bat.mods = 0 THEN 1 ELSE 2
                             ELSE IF \/ op = "restore" /\ ok /\ bat.mods # 0
                                     \/ op = "new"
                                  THEN 2
                                  ELSE bat.mods,
               op |-> IF op \in {"set", "new"} THEN "other" ELSE op,
               ok |-> ok, out |-> out]
    /\ ret' = NoRet
    /\ last' = NoLast
    /\ fk' = Settled(fk)
    /\ log' = {}
    /\ UNCHANGED <<launch, cpc, exitCode, dev, p2c, c2p, childEnd, ppc, pend,
                   callbuf, converted, actOks, shut, undelivered, shadow>>

\* What the caller of a setter sees: the property set and the bool returned.
SetterReturned(property, inject) == [property |-> property, inject |-> inject]

\* test_sleep_idempotent: unit.sleep(), once and again.
BatterySleep ==
    BatCalled(BatSleep(bat.dev),
              IF bat.op \in {"sleep", "sleep_again"} THEN "sleep_again" ELSE "sleep",
              TRUE, JsonNull, FALSE)

\* unit.wake(), once and again.
BatteryWake ==
    BatCalled(BatWake(bat.dev),
              IF bat.op \in {"wake", "wake_again"} THEN "wake_again" ELSE "wake",
              TRUE, JsonNull, FALSE)

\* GoldfishBattery::new: the VM is brought up again with a new device, to
\* which the caller's snapshot can be restored.
BatteryNewDevice ==
    BatCalled(GoldfishBatteryNew, "new", TRUE, JsonNull, FALSE)

\* unit.snapshot(): the caller keeps the value as its snapshot, or only looks
\* at it.
BatterySnapshot ==
    \E kept \in BOOLEAN :
        BatCalled(bat.dev,
                  IF bat.op = "restore" /\ bat.ok
                  THEN "snapshot_after_restore"
                  ELSE "snapshot",
                  TRUE, BatSnapshot(bat.dev), kept)

\* unit.restore(data): data is the snapshot the caller kept, or a value that
\* is no snapshot.
BatteryRestore ==
    \E data \in {bat.snap, JsonNull} :
        BatCalled(BatRestore(bat.dev, data), "restore", IsBatSnapshot(data),
                  JsonNull, FALSE)

\* tests::modify_device: battery.state.lock().set_capacity(70)
ModifyDevice ==
    BatCalled([bat.dev EXCEPT
                  !.state = SetProperty(@, "capacity", BAT_CAPACITY_MOD)],
              "set", TRUE,
              SetterReturned("capacity",
                             SetPropertyInject(bat.dev.state, "capacity",
                                               BAT_CAPACITY_MOD)),
              FALSE)

\* command_monitor, Token::Commands: the monitor thread takes a
\* BatControlCommand::SetACOnline and calls the setter.
BatteryControl ==
    /\ bat.dev.monitor_thread
    /\ \E ac_online \in {0, 1} :
        BatCalled([bat.dev EXCEPT
                      !.state = SetProperty(@, "ac_online", ac_online)],
                  "set", TRUE,
                  SetterReturned("ac_online",
                                 SetPropertyInject(bat.dev.state, "ac_online",
                                                   ac_online)),
                  FALSE)

\* GoldfishBattery::read of BATTERY_INT_STATUS into a 4-byte buffer of
\* zeroes.
BatteryRead ==
    LET read == BatRead(bat.dev, BusAccessInfo(BATTERY_INT_STATUS, 0, 0),
                        ToNeBytes(0))
    IN BatCalled(read.dev, "other", TRUE, [read |-> read.data], FALSE)

\* GoldfishBattery::write of BATTERY_INT_ENABLE: no interrupt, the battery
\* interrupt alone, or both.
BatteryWrite ==
    \E val \in {0, BATTERY_STATUS_CHANGED, BATTERY_INT_MASK} :
        BatCalled(BatWrite(bat.dev, BusAccessInfo(BATTERY_INT_ENABLE, 0, 0),
                           ToNeBytes(val)),
                  "other", TRUE, JsonNull, FALSE)

\* suspendable_tests! for GoldfishBattery: the calls of the tests, in any
\* order, with the monitor thread at work when it runs.
BatteryNext ==
    \/ BatterySleep
    \/ BatteryWake
    \/ BatteryNewDevice
    \/ BatterySnapshot
    \/ BatteryRestore
    \/ ModifyDevice
    \/ BatteryControl
    \/ BatteryRead
    \/ BatteryWrite

BatterySpec == Init /\ [][BatteryNext]_vars

\* The two Suspendable implementations side by side: a GoldfishBattery called
\* in-process, and a ProxyDevice (of an EchoDevice) that is put to sleep.
SuspendNext ==
    \/ BatterySleep
    \/ BatteryWake
    \/ BatterySnapshot
    \/ BatteryRestore
    \/ ModifyDevice
    \/ BatteryWrite
    \/ LaunchOk
    \/ ChildOnSandboxed
    \/ TryFromSend(1)
    \/ TryFromRecv(1)
    \/ ChildAwaitActivation
    \/ ChildServe
    \/ Sleep(1)
    \/ SyncRecv(1)

SuspendSpec == Init /\ [][SuspendNext]_vars

\* --------------------------------------------------- a proxied bus device

\* A GoldfishBattery behind a ProxyDevice: the launch and the activation as
\* ProxyDevice::new makes them, then the bus accesses of the guest.
AccessNext ==
    \/ LaunchOk
    \/ ChildOnSandboxed
    \/ TryFromSend(1)
    \/ TryFromRecv(1)
    \/ ChildAwaitActivation
    \/ ChildServe
    \/ ReadAccess(1)
    \/ WriteAccess(1)
    \/ SyncRecv(1)

AccessInit == InitWith(GoldfishBatteryNew)

\* A PCI device behind a ProxyDevice, and the configuration accesses made of
\* it.
ConfigNext ==
    \/ LaunchOk
    \/ ChildOnSandboxed
    \/ TryFromSend(1)
    \/ TryFromRecv(1)
    \/ ChildAwaitActivation
    \/ ChildServe
    \/ ConfigRegisterWrite(1)
    \/ ConfigRegisterRead(1)
    \/ InitPciConfigMapping(1)
    \/ SyncRecv(1)

ConfigInit == InitWith(PciNew)

ConfigSpec == ConfigInit /\ [][ConfigNext]_vars

AccessSpec == AccessInit /\ [][AccessNext]_vars

\* ------------------------------------------------------------- the claims

\* C1: a sequence of writes and reads issued on a ProxyDevice reads what the
\* same sequence reads on the device run in-process: a read that returns
\* while the child is alive got a ReadResult, and a read that got a
\* ReadResult hands the caller the bytes the in-process device would.
C1_ReadRefinesInProcess ==
    ret.cmd = "Read" =>
        /\ ret.got = "ReadResult" => ret.out = ret.exp
        /\ ~ret.childGone => ret.got = "ReadResult"

\* A 1-byte write of a non-zero value was read back through the proxy.
C1_Witness ==
    /\ ret.cmd = "Read"
    /\ ret.got = "ReadResult"
    /\ ret.buf0 = <<0>>
    /\ ret.out = <<TEST_BYTE>>
    /\ ~ret.childGone

\* C2: config_register_write(reg_idx, offset, [v]) followed by
\* config_register_read(reg_idx) on the same ProxyDevice returns v: a config
\* read that returns while the child is alive got a ReadConfigResult, and its
\* value is the byte last written.
C2_ConfigRoundTrip ==
    ret.cmd = "ReadConfig" =>
        /\ ret.got = "ReadConfigResult" => ret.num = ret.expNum
        /\ ~ret.childGone => ret.got = "ReadConfigResult"

\* A non-zero byte written to the config register was read back.
C2_Witness ==
    /\ ret.cmd = "ReadConfig"
    /\ ret.got = "ReadConfigResult"
    /\ ret.num = TEST_BYTE
    /\ shadow.config = TEST_BYTE

\* C3: of the copies of one ChildProcIntf at most one conversion into a
\* ProxyDevice ever returns Ok.
C3_AtMostOneConversion == Cardinality(converted) <= 1

\* C4: on Shutdown the device is dropped before the Ok is sent: whenever the
\* acknowledgment of a Shutdown is in the Tube, and whenever the Drop of a
\* ProxyDevice has received it, the child's device has been torn down.
C4_TeardownBeforeAck ==
    /\ \A i \in 1..Len(c2p) : c2p[i].re = "Shutdown" => dev.dropped
    /\ (ret.cmd = "Shutdown" /\ ret.got = "Ok" /\ ret.re = "Shutdown")
            => dev.dropped

\* The Drop of a ProxyDevice received the acknowledgment of its Shutdown.
C4_Witness ==
    /\ ret.cmd = "Shutdown"
    /\ ret.got = "Ok"
    /\ ret.re = "Shutdown"
    /\ ret.src = ret.c
    /\ dev.dropped
    /\ ppc[ret.c] = "gone"

C6_ChildDeathUnblocksParent ==
    /\ \A c \in Copies :
          (cpc = "exited" /\ ppc[c] = "wait") ~> (ppc[c] # "wait")
    /\ []((ret.cmd # "None" /\ ret.got = "None")
            => ret.out = ret.buf0 /\ ret.num = 0 /\ ~ret.ok /\ ret.childGone)

\* A call returned degraded after the child was killed.
C6_Witness ==
    /\ cpc = "exited"
    /\ exitCode = EXIT_KILLED
    /\ ret.cmd = "ReadConfig"
    /\ ret.got = "None"
    /\ ret.num = 0
    /\ ppc[ret.c] = "idle"

\* The result variant the claim pairs with each command handled in the
\* Active state (<<>>: none).
C7_Paired(cmd) ==
    CASE cmd = "Read" -> <<"ReadResult">>
      [] cmd = "ReadConfig" -> <<"ReadConfigResult">>
      [] cmd = "WriteConfig" -> <<"WriteConfigResult">>
      [] cmd = "InitPciConfigMapping" -> <<"InitPciConfigMappingResult">>
      [] cmd = "ReadVirtualConfig" -> <<"ReadVirtualConfigResult">>
      [] cmd = "WriteVirtualConfig" -> <<"Ok">>
      [] cmd = "GetRanges" -> <<"GetRangesResult">>
      [] cmd = "Snapshot" -> <<"SnapshotResult">>
      [] cmd = "Restore" -> <<"RestoreResult">>
      [] cmd = "Sleep" -> <<"SleepResult">>
      [] cmd = "Wake" -> <<"WakeResult">>
      [] cmd = "Shutdown" -> <<"Ok">>
      [] OTHER -> <<>>

\* C7: in the Active state the child attempts exactly one send, of the paired
\* variant, for every command it has handled, and none for Write,
\* DestroyDevice and a second Activate.
C7_OneResponsePerRequest ==
    (last.state = "active" /\ cpc # "shutdown")
        => last.sends = C7_Paired(last.cmd)

\* The child answered a WriteVirtualConfig with Ok and stays Active.
C7_Witness ==
    /\ last.cmd = "WriteVirtualConfig"
    /\ last.sends = <<"Ok">>
    /\ cpc = "active"
    /\ c2p # <<>>

\* The results in the Tube that were produced for a request of copy c.
ResultsFor(c) == {i \in 1..Len(c2p) : c2p[i].src = c}

\* C8: the result a synchronous ProxyDevice call consumes is the one the child
\* produced for that call's request: it was produced for a request of the
\* same ProxyDevice and of the same command, and no older result for that
\* ProxyDevice can be in the Tube, since none is there while the ProxyDevice
\* is between calls and never more than one is there.
C8_ResponsesInLockstep ==
    /\ (ret.cmd # "None" /\ ret.got # "None")
            => ret.src = ret.c /\ ret.re = ret.cmd
    /\ \A c \in Copies :
        /\ ppc[c] = "idle" => ResultsFor(c) = {}
        /\ Cardinality(ResultsFor(c)) <= 1

\* A synchronous call consumed its own result after a write had been sent
\* ahead of it and handled.
C8_Witness ==
    /\ ret.cmd = "GetRanges"
    /\ ret.got = "GetRangesResult"
    /\ ret.src = ret.c
    /\ dev.data = TEST_BYTE

\* The requests of ProxyDevice c in the Tube that the child has not handled.
Outstanding(c) ==
    {i \in 1..Len(p2c) : p2c[i].src = c /\ p2c[i].cmd # "Activate"}

\* C9 as stated: at most one request of a ProxyDevice is outstanding.
C9_OneOutstanding ==
    \A c \in Copies : Cardinality(Outstanding(c)) <= 1

\* C9 as amended: at most one request that expects a result is outstanding
\* per ProxyDevice (Write and DestroyDevice may be queued ahead of it).
C9_OneAwaitedOutstanding ==
    \A c \in Copies :
        Cardinality({i \in Outstanding(c) : p2c[i].cmd \notin NoResultCmds}) <= 1

\* A Write is still unhandled when the same ProxyDevice has sent a Read.
C9_Witness ==
    /\ Len(p2c) = 2
    /\ p2c[1].cmd = "Write"
    /\ p2c[2].cmd = "Read"
    /\ p2c[1].src = p2c[2].src
    /\ ppc[p2c[2].src] = "wait"

\* AwaitingActivation, Active (a Shutdown in hand included), Terminated.
C10_Rank(state) ==
    CASE state = "none" -> 0
      [] state = "forked" -> 1
      [] state = "await" -> 2
      [] state \in {"active", "shutdown"} -> 3
      [] OTHER -> 4

\* C10: the child's state only moves forward, and once Terminated the child
\* handles no command: it touches neither the device nor the Tube.
C10_ForwardOnly ==
    [][/\ C10_Rank(cpc') >= C10_Rank(cpc)
       /\ cpc = "exited"
            => /\ cpc' = "exited"
               /\ last' = NoLast
               /\ dev' = dev
               /\ exitCode' = exitCode
               /\ Len(c2p') <= Len(c2p)]_vars

\* The child went through activation and a Shutdown and has exited.
C10_Witness ==
    /\ cpc = "exited"
    /\ exitCode = EXIT_OK
    /\ actOks = 1
    /\ last.cmd = "Shutdown"
    /\ last.sends = <<"Ok">>

\* C11: a first command other than Activate makes the child panic: it exits
\* with code 101, has invoked no method of the device, has changed nothing of
\* the device's registers and has sent no result.
C11_AbortBeforeActivation ==
    [][(cpc = "await" /\ p2c # <<>> /\ Head(p2c).cmd # "Activate"
            /\ cpc' # cpc /\ exitCode' # EXIT_KILLED)
        => /\ cpc' = "exited"
           /\ exitCode' = EXIT_PANIC
           /\ last'.cmd = Head(p2c).cmd
           /\ last'.sends = <<>>
           /\ last'.call = "none"
           /\ c2p' = c2p
           /\ dev'.data = dev.data
           /\ dev'.config = dev.config]_vars

\* The child panicked on a Write that arrived before any Activate.
C11_Witness ==
    /\ last.state = "await"
    /\ last.cmd = "Write"
    /\ cpc = "exited"
    /\ exitCode = EXIT_PANIC
    /\ actOks = 0
    /\ dev.data = 0

\* C12: an Active child that receives Activate again panics: it exits with
\* code 101 and sends nothing, so in its whole life the child sends at most
\* one Ok in answer to an Activate and the sender of the duplicate gets no Ok
\* produced for its Activate.
C12_DuplicateActivateAborts ==
    /\ [][(last'.state = "active" /\ last'.cmd = "Activate")
            => /\ cpc = "active"
               /\ cpc' = "exited"
               /\ exitCode' = EXIT_PANIC
               /\ last'.sends = <<>>
               /\ c2p' = c2p]_vars
    /\ [](actOks <= 1)

\* The child panicked on the Activate of a second copy, which still waits for
\* an answer.
C12_Witness ==
    /\ last.state = "active"
    /\ last.cmd = "Activate"
    /\ cpc = "exited"
    /\ exitCode = EXIT_PANIC
    /\ actOks = 1
    /\ \E c \in Copies : ppc[c] = "act_wait" /\ c2p = <<>>

\* The commands of the Suspendable methods.
C13_SuspendCmds == {"Snapshot", "Restore", "Sleep", "Wake"}

\* A result in the Tube that carries an error of the device model.
C13_ErrorResultQueued ==
    \E i \in 1..Len(c2p) : c2p[i].re \in C13_SuspendCmds /\ ~c2p[i].ok

\* C13: when the device's snapshot, restore, sleep or wake returns an error,
\* the child sends the matching result variant carrying the error, stays
\* Active with the device as it was, and goes on answering: a command handled
\* while such an error result is still in the Tube gets its paired result.
C13_DeviceErrorKeepsChildActive ==
    /\ [][(last'.state = "active" /\ last'.cmd \in C13_SuspendCmds)
            => /\ cpc = "active"
               /\ cpc' = "active"
               /\ dev' = dev
               /\ last'.sends = <<Expected(last'.cmd)>>
               /\ ParentOpen
                    => /\ Len(c2p') = Len(c2p) + 1
                       /\ c2p'[Len(c2p')].type = Expected(last'.cmd)
                       /\ c2p'[Len(c2p')].ok = SuspendableDefaultOk]_vars
    /\ []((last.state = "active" /\ cpc # "shutdown" /\ C13_ErrorResultQueued)
            => /\ last.sends = C7_Paired(last.cmd)
               /\ last.cmd \notin {"Activate", "Shutdown"} => cpc = "active")

\* The child answered a Read with a ReadResult after it had answered a
\* Snapshot with the device's error, and is still Active.
C13_Witness ==
    /\ Len(c2p) = 2
    /\ c2p[1].type = "SnapshotResult"
    /\ ~c2p[1].ok
    /\ c2p[2].type = "ReadResult"
    /\ last.cmd = "Read"
    /\ cpc = "active"

\* C14: apart from being killed by a signal, an Active child leaves the
\* Active state only by taking a Shutdown, by a failed tube.recv() or by the
\* panic on a second Activate; after any other command it is still Active,
\* whether or not its result could be sent.
C14_ActiveEndsOnlyByShutdownOrDeath ==
    /\ [][(cpc = "active" /\ cpc' # "active" /\ exitCode' # EXIT_KILLED)
            => \/ /\ p2c # <<>>
                  /\ Head(p2c).cmd = "Shutdown"
                  /\ cpc' = "shutdown"
               \/ /\ p2c = <<>>
                  /\ ~ParentOpen
                  /\ cpc' = "exited"
                  /\ exitCode' = EXIT_OK
               \/ /\ p2c # <<>>
                  /\ Head(p2c).cmd = "Activate"
                  /\ cpc' = "exited"
                  /\ exitCode' = EXIT_PANIC]_vars
    /\ [][(last'.state = "active" /\ last'.cmd \notin {"Shutdown", "Activate"})
            => cpc' = "active"]_vars

\* The child handled a Read whose result it could not send, the parent-side
\* endpoint being closed, and is still Active.
C14_Witness ==
    /\ last.state = "active"
    /\ last.cmd = "Read"
    /\ last.sends = <<"ReadResult">>
    /\ ~ParentOpen
    /\ c2p = <<>>
    /\ cpc = "active"

\* C15: snapshot, restore, sleep and wake of a ProxyDevice return Ok exactly
\* when the matching result variant arrived and carries Ok; when tube.recv()
\* failed or another variant arrived they return Err, and the call returns
\* (the ProxyDevice is ready for its next call).
C15_SuspendCallsReportFailure ==
    ret.cmd \in C13_SuspendCmds
        => /\ ret.ok <=> (ret.got = Expected(ret.cmd) /\ ret.resOk)
           /\ (ret.got = "None" \/ ret.got # Expected(ret.cmd)) => ~ret.ok
           /\ ppc[ret.c] = "idle"

\* sleep received a WakeResult carrying Ok and returned Err.
C15_Witness ==
    /\ ret.cmd = "Sleep"
    /\ ret.got = "WakeResult"
    /\ ret.resOk
    /\ ~ret.ok

\* snapshot received the SnapshotResult carrying Ok and returned Ok.
C15_WitnessOk ==
    /\ ret.cmd = "Snapshot"
    /\ ret.got = "SnapshotResult"
    /\ ret.ok

\* The methods of C16: their commands.
C16_Cmds == {"ReadConfig", "ReadVirtualConfig", "GetRanges", "WriteConfig"}

\* C16: when tube.recv() failed or a variant other than the expected one
\* arrived, config_register_read and virtual_config_register_read return 0,
\* get_ranges returns the empty list and config_register_write the empty
\* ConfigWriteResult, whatever the result that arrived carries; the call
\* returns.
C16_DegradedDefaults ==
    (ret.cmd \in C16_Cmds /\ ret.got # Expected(ret.cmd))
        => /\ ret.num = 0
           /\ ret.list = <<>>
           /\ ppc[ret.c] = "idle"

\* get_ranges received a WriteConfigResult that carries a range and returned
\* the empty list.
C16_Witness ==
    /\ ret.cmd = "GetRanges"
    /\ ret.got = "WriteConfigResult"
    /\ ret.resList # <<>>
    /\ ret.list = <<>>

\* config_register_read received a ReadVirtualConfigResult of 42 and
\* returned 0.
C16_WitnessRead ==
    /\ ret.cmd = "ReadConfig"
    /\ ret.got = "ReadVirtualConfigResult"
    /\ ret.resNum = TEST_BYTE
    /\ ret.num = 0

C18_FireAndForget ==
    [][\A c \in Copies :
        (/\ ppc[c] = "idle"
         /\ Len(p2c') = Len(p2c) + 1
         /\ p2c'[Len(p2c')].src = c
         /\ p2c'[Len(p2c')].cmd \in NoResultCmds)
        => /\ SubSeq(p2c', 1, Len(p2c)) = p2c
           /\ c2p' = c2p
           /\ ppc'[c] = "idle"
           /\ pend'[c] = NoReq
           /\ ret' = NoRet]_vars

\* The ProxyDevice has sent a Write and is ready for its next call while a
\* result that is not its own lies unread in the Tube.
C18_Witness ==
    /\ ppc[1] = "idle"
    /\ p2c # <<>>
    /\ p2c[Len(p2c)].cmd = "Write"
    /\ p2c[Len(p2c)].data[1] = TEST_BYTE
    /\ c2p # <<>>
    /\ c2p[1].type = "ReadResult"

\* C19: once the Drop of a ProxyDevice has sent Shutdown the child process
\* eventually exits, and so it does once every holder of the parent-side
\* endpoint is gone.
C19_DropEndsChild ==
    /\ \A c \in Copies :
        (ppc[c] = "wait" /\ pend[c].cmd = "Shutdown") ~> (cpc = "exited")
    /\ (cpc \in {"await", "active", "shutdown"} /\ ~ParentOpen)
            ~> (cpc = "exited")

\* The child has exited on the Shutdown of a dropped ProxyDevice, whose Drop
\* is still waiting for the acknowledgment.
C19_Witness ==
    /\ cpc = "exited"
    /\ exitCode = EXIT_OK
    /\ \E c \in Copies :
        /\ ppc[c] = "wait"
        /\ pend[c].cmd = "Shutdown"
        /\ c2p # <<>>
        /\ c2p[1].re = "Shutdown"

\* C20: a child that has taken a Shutdown does one more thing, the attempt
\* to send Ok, and exits with code 0 whether or not the Ok could be sent; it
\* handles none of the commands queued behind the Shutdown, and the device,
\* already dropped, is not touched again.
C20_ShutdownIsFinal ==
    /\ [][(cpc = "shutdown" /\ cpc' # "shutdown" /\ exitCode' # EXIT_KILLED)
            => /\ cpc' = "exited"
               /\ exitCode' = EXIT_OK
               /\ last' = Handled(shut, "active", <<"Ok">>)
               /\ c2p' = IF ParentOpen
                         THEN Append(c2p, Res("Ok", <<>>, 0, TRUE, "Shutdown",
                                              shut.src))
                         ELSE c2p]_vars
    /\ [][cpc = "shutdown"
            => /\ last'.cmd \in {"None", "Shutdown"}
               /\ dev' = dev
               /\ Len(p2c') >= Len(p2c) \/ cpc' = "exited"]_vars
    /\ [][cpc = "exited" => last' = NoLast /\ dev' = dev]_vars

\* The child exited with code 0 after a Shutdown whose acknowledgment could
\* not be sent, the parent-side endpoint being closed.
C20_Witness ==
    /\ cpc = "exited"
    /\ exitCode = EXIT_OK
    /\ last.cmd = "Shutdown"
    /\ last.sends = <<"Ok">>
    /\ ~ParentOpen
    /\ c2p = <<>>
    /\ dev.dropped

\* The child has taken a Shutdown while another command is queued behind it.
C20_WitnessQueued ==
    /\ cpc = "shutdown"
    /\ p2c # <<>>
    /\ dev.dropped

\* The elements of a list of descriptors.
Range(s) == {s[i] : i \in 1..Len(s)}

\* A list in strictly increasing order: sorted and without repetition.
StrictlySorted(s) == \A i, j \in 1..Len(s) : i < j => s[i] < s[j]

\* C21 as stated: for every keep-list given to ChildProcIntf::new, the list
\* handed to jail.fork is sorted, has no duplicates, and holds exactly the
\* distinct descriptors of the input and the child-side endpoint of the Tube.
C21_ExactlyInputAndTube ==
    fk.tube # 0 =>
        /\ StrictlySorted(fk.jail)
        /\ Range(fk.jail) = Range(fk.keep) \cup {fk.tube}

\* C21, amended: for every keep-list given to ChildProcIntf::new, the list
\* handed to jail.fork is sorted, has no duplicates, and holds exactly the
\* distinct descriptors of the input, the child-side endpoint of the Tube and,
\* when a swap PrepareFork is given, the descriptors of its sender.
C21_SortedDistinctKeepList ==
    fk.tube # 0 =>
        /\ StrictlySorted(fk.jail)
        /\ Range(fk.jail) = Range(fk.keep) \cup {fk.tube} \cup Range(fk.sender)

\* A launch whose keep-list repeats a descriptor and is out of order, with a
\* swap sender whose descriptor the list did not name.
C21_Witness ==
    /\ fk.tube # 0
    /\ \E i, j \in 1..Len(fk.keep) : i < j /\ fk.keep[i] = fk.keep[j]
    /\ \E i, j \in 1..Len(fk.keep) : i < j /\ fk.keep[i] > fk.keep[j]
    /\ fk.sender # <<>>
    /\ Range(fk.sender) \cap (Range(fk.keep) \cup {fk.tube}) = {}
    /\ Len(fk.jail) = 3

\* C22: ChildProcIntf::new has no partial outcome: either it returned a
\* ChildProcIntf (the parent-side endpoint is held) and a child process was
\* forked, or it returned an error and there is no child process, no holder of
\* either endpoint and nothing in the Tube; a child process exists only after
\* a successful launch.
C22_NoPartialLaunch ==
    /\ launch = "ok" => cpc # "none" /\ ppc[1] # "none"
    /\ launch = "err" =>
            /\ cpc = "none"
            /\ exitCode = -1
            /\ childEnd = {}
            /\ \A c \in Copies : ppc[c] = "none"
            /\ p2c = <<>> /\ c2p = <<>>
    /\ cpc # "none" \/ (\E c \in Copies : ppc[c] # "none") => launch = "ok"

\* ChildProcIntf::new returned an error.
C22_Witness == launch = "err" /\ cpc = "none" /\ fk.trace = <<>>

\* ChildProcIntf::new returned a ChildProcIntf and the forked child runs.
C22_WitnessOk ==
    launch = "ok" /\ cpc = "forked" /\ ppc[1] = "held" /\ fk.tube # 0

\* The step in which post_fork_cb panics: a command other than Activate
\* arrives before the activation, or Activate arrives again.
C23_Panics ==
    /\ last'.cmd # "None"
    /\ \/ last'.state = "await" /\ last'.cmd # "Activate"
       \/ last'.state = "active" /\ last'.cmd = "Activate"

\* C23: in the forked child fork_process never returns: the child only ever
\* ends as an exited process that holds no endpoint and takes no further
\* step; its exit code is 101 exactly when post_fork_cb panicked and
\* otherwise 0 (or 1 from the libc::exit(1) of the closure before
\* on_sandboxed, or 137 when a signal killed it).
C23_ChildNeverReturns ==
    /\ [](cpc = "exited" <=> exitCode # -1)
    /\ [](cpc = "exited" => "child" \notin childEnd)
    /\ [][cpc = "exited" => UNCHANGED <<cpc, exitCode, dev, childEnd>>]_vars
    /\ [][cpc # "exited" /\ cpc' = "exited" =>
            /\ exitCode' \in {EXIT_OK, EXIT_PANIC, EXIT_FAILURE, EXIT_KILLED}
            /\ exitCode' = EXIT_PANIC <=> C23_Panics
            /\ exitCode' = EXIT_FAILURE => cpc = "forked" /\ fk.swap
            /\ cpc = "shutdown" => exitCode' \in {EXIT_OK, EXIT_KILLED}]_vars

\* post_fork_cb panicked on a command that came before the activation, and
\* the process exited with 101.
C23_Witness ==
    /\ cpc = "exited"
    /\ exitCode = EXIT_PANIC
    /\ last.state = "await"
    /\ last.cmd \notin {"None", "Activate"}
    /\ "child" \notin childEnd

\* child_proc returned after Command::Shutdown, and the process exited with 0.
C23_WitnessReturn ==
    cpc = "exited" /\ exitCode = EXIT_OK /\ last.cmd = "Shutdown"

\* C24: when tube.recv() fails (the parent-side endpoint is closed and
\* nothing is left to read), child_proc ends with exit code 0, sends nothing,
\* handles no command and calls no device method; the device is dropped as
\* it is.
C24_RecvFailureEndsQuietly ==
    [][/\ cpc \in {"await", "active"}
       /\ p2c = <<>>
       /\ ~ParentOpen
       /\ cpc' # cpc
       /\ exitCode' # EXIT_KILLED
       => /\ cpc' = "exited"
          /\ exitCode' = EXIT_OK
          /\ c2p' = c2p
          /\ actOks' = actOks
          /\ last' = NoLast
          /\ dev' = Dropped(dev)]_vars

\* The receive failed before the activation: the child exited with 0, having
\* acknowledged no Activate and handled no command.
C24_Witness ==
    /\ cpc = "exited"
    /\ exitCode = EXIT_OK
    /\ actOks = 0
    /\ last = NoLast
    /\ dev = Dropped(EchoNew)
    /\ ~ParentOpen

\* The receive failed after the activation: the copy that sent Activate went
\* away before it became a ProxyDevice, so no Shutdown was ever sent.
C24_WitnessActive ==
    /\ cpc = "exited"
    /\ exitCode = EXIT_OK
    /\ actOks = 1
    /\ converted = {}
    /\ last = NoLast
    /\ dev = Dropped(EchoNew)
    /\ ~ParentOpen

\* C25: sleep() called twice in succession never panics: on a GoldfishBattery
\* both calls return Ok and the second leaves the device as the first left
\* it; on a ProxyDevice each Sleep is answered with a SleepResult (Ok or
\* Err), leaves the device in the child as it was and child_proc Active, and
\* the call returns to an idle ProxyDevice.
C25_SleepIdempotent ==
    /\ [][bat'.op = "sleep_again" =>
            /\ bat.op \in {"sleep", "sleep_again"}
            /\ bat.ok /\ bat'.ok
            /\ bat'.dev = bat.dev]_vars
    /\ [][last'.cmd = "Sleep" =>
            /\ cpc' = "active"
            /\ exitCode' = -1
            /\ dev' = dev
            /\ last'.sends = <<"SleepResult">>]_vars
    /\ [](ret.cmd = "Sleep" => ret.got = "SleepResult" /\ ppc[ret.c] = "idle")

\* The battery's monitor thread ran and the battery was put to sleep twice;
\* the ProxyDevice's child has just answered a Sleep.
C25_Witness ==
    /\ bat.op = "sleep_again"
    /\ bat.dev.activated
    /\ ~bat.dev.monitor_thread
    /\ last.cmd = "Sleep"
    /\ cpc = "active"

\* C26: for every snapshot s a GoldfishBattery's caller kept, restore(s)
\* returns Ok and a snapshot() that directly follows it returns a value equal
\* to s, whether or not the device was modified since s was taken.
C26_RestoreThenSnapshot ==
    /\ [][bat'.op = "restore" => (bat'.ok <=> bat.snap # JsonNull)
                                    \/ bat'.dev = bat.dev]_vars
    /\ [][bat'.op = "snapshot_after_restore" =>
            /\ bat.op = "restore" /\ bat.ok
            /\ bat'.ok
            /\ bat'.out = bat.snap]_vars

\* test_suspend_mod_restore: the snapshot was kept, the device modified (its
\* capacity is not the one of the snapshot any more), the snapshot restored,
\* and the snapshot taken then equals the one kept.
C26_Witness ==
    /\ bat.op = "snapshot_after_restore"
    /\ bat.mods = 2
    /\ bat.snap # JsonNull
    /\ bat.out = bat.snap
    /\ bat.snap.state.capacity = BAT_CAPACITY_NEW

\* C27: when exactly one setter call changed a field of the
\* GoldfishBatteryState since the caller kept a snapshot, and the snapshot was
\* not restored since, the next snapshot differs from the one kept.
C27_ModifiedSnapshotDiffers ==
    [][bat'.op \in {"snapshot", "snapshot_after_restore"} /\ bat.mods = 1
        => bat'.out # bat.snap]_vars

\* test_suspend_mod: the snapshot was kept, set_capacity(70) changed the
\* capacity, and the snapshot taken then is another value.
C27_Witness ==
    /\ bat.op = "snapshot"
    /\ bat.mods = 1
    /\ bat.snap # JsonNull
    /\ bat.snap.state.capacity = BAT_CAPACITY_NEW
    /\ bat.out.state.capacity = BAT_CAPACITY_MOD

\* The failures of a ProxyDevice method are all in log: a send that failed
\* while the method goes on to wait, a receive that failed, a result of
\* another variant than the method matches on.
C28_FailuresSeen ==
    /\ [][\A c \in Copies : c \in undelivered' \ undelivered =>
            \E f \in log' : f.site = "send" /\ f.cmd = pend'[c].cmd]_vars
    /\ [](ret.cmd # "None" /\ ret.got = "None" =>
            \E f \in log : f.site = "recv" /\ f.cmd = ret.cmd)
    /\ [](/\ ret.cmd # "None"
          /\ ret.got # "None"
          /\ Expected(ret.cmd) # "Any"
          /\ ret.got # Expected(ret.cmd)
          => \E f \in log : f.site = "match" /\ f.cmd = ret.cmd)

C28_WitnessSend ==
    \E f \in log : f.site = "send" /\ f.reported /\ f.label

\* A receive failed and was reported with the label.
C28_WitnessRecv ==
    /\ ret.cmd # "None"
    /\ ret.got = "None"
    /\ \E f \in log : f.site = "recv" /\ f.reported /\ f.label

\* C29: there is no timeout: a synchronous ProxyDevice call returns only
\* when a result is there to receive or the child-side endpoint is closed;
\* while neither is the case its tube.recv() cannot return; and as long as
\* the call waits its request stands: no step but the child's takes a command
\* off the Tube.
C29_NoTimeout ==
    /\ [][ret'.cmd # "None" => c2p # <<>> \/ ~ChildOpen]_vars
    /\ [](\A c \in Copies :
            ppc[c] = "wait" /\ c2p = <<>> /\ ChildOpen => ~ENABLED SyncRecv(c))
    /\ [][\A c \in Copies :
            ppc[c] = "wait" /\ ppc'[c] = "wait" => pend'[c] = pend[c]]_vars
    /\ [][Len(p2c') < Len(p2c) => last'.cmd # "None" \/ cpc' = "exited"]_vars

\* A call waits for its result while its request is still in the Tube, the
\* child has sent nothing and holds its endpoint.
C29_Witness ==
    \E c \in Copies :
        /\ ppc[c] = "wait"
        /\ pend[c].cmd = "Read"
        /\ c2p = <<>>
        /\ ChildOpen
        /\ cpc = "active"
        /\ \E i \in 1..Len(p2c) : p2c[i] = pend[c]

\* What the child has done once post_fork_cb reached child_proc.
C30_Sandboxed == <<"fork", "on_sandboxed">>

\* C30: in the child the order is: the fork (jail.fork: policy applied,
\* descriptors pruned), then device.on_sandboxed(), then child_proc waiting
\* for Activate, then the device's methods.  The fork and on_sandboxed happen
\* once each; until on_sandboxed has run the child takes no command, sends
\* nothing and leaves the device alone, and no device method is called
\* before Activate was acknowledged.
C30_SandboxBeforeService ==
    /\ [](fk.trace \in {<<>>, <<"fork">>, C30_Sandboxed})
    /\ [](cpc = "none" <=> fk.trace = <<>>)
    /\ [](cpc = "forked" => fk.trace = <<"fork">>)
    /\ [](cpc \in {"await", "active", "shutdown"} => fk.trace = C30_Sandboxed)
    /\ [][last'.cmd # "None" => fk.trace = C30_Sandboxed]_vars
    /\ [][last'.call # "none" => last'.state = "active" /\ actOks >= 1]_vars
    /\ [][cpc = "forked" /\ cpc' # "exited" =>
            /\ c2p' = c2p
            /\ dev' = dev
            /\ actOks' = actOks
            /\ Len(p2c') >= Len(p2c)]_vars

\* The child calls the device's read, after the fork, on_sandboxed and the
\* activation.
C30_Witness ==
    /\ last.call = "read"
    /\ last.state = "active"
    /\ fk.trace = C30_Sandboxed
    /\ actOks = 1

\* A command is in the Tube while the child has not reached on_sandboxed.
C30_WitnessQueued == cpc = "forked" /\ p2c # <<>> /\ fk.trace = <<"fork">>

\* ----------------------------------------------------------------------
\* C31: for every length 1..8 a proxied read hands the device a buffer of
\* exactly the caller's length and the caller gets exactly the bytes the
\* device left in it, a proxied write hands the device exactly the caller's
\* bytes, and the device is given the caller's BusAccessInfo.
C31_AccessForwarded ==
    [][/\ (last'.call \in {"read", "write"} /\ p2c # <<>>) =>
            LET given == Head(p2c).given IN
            /\ last'.args.info = given.info
            /\ Len(last'.args.data) = Len(given.data)
            /\ last'.call = "write" => last'.args.data = given.data
       /\ \A c \in Copies :
            (ret'.c = c /\ ret'.cmd = "Read" /\ ret'.got = "ReadResult") =>
                LET given == pend[c].given IN
                /\ Len(ret'.out) = Len(given.data)
                /\ ret'.out =
                      DevRead(shadow, given.info,
                              [i \in 1..Len(given.data) |-> 0]).data
      ]_vars

\* A 4-byte read of the interrupt-enable register returned the bytes a
\* 4-byte write had stored there, into a buffer that held zeroes.
C31_Witness ==
    /\ ret.cmd = "Read"
    /\ ret.got = "ReadResult"
    /\ ret.buf0 = [i \in 1..U32_SIZE |-> 0]
    /\ ret.out = [i \in 1..U32_SIZE |-> TEST_BYTE]

\* The device was handed a write of 8 bytes at the capacity register.
C31_WitnessWrite ==
    /\ last.call = "write"
    /\ last.args.data = [i \in 1..DATA_BUF_LEN |-> TEST_BYTE]
    /\ last.args.info.offset = BATTERY_CAPACITY

\* A read of 8 bytes returned the 8 zeroes the device left in its buffer.
C31_WitnessRead ==
    /\ ret.cmd = "Read"
    /\ ret.got = "ReadResult"
    /\ ret.buf0 = [i \in 1..DATA_BUF_LEN |-> TEST_BYTE]
    /\ ret.out = [i \in 1..DATA_BUF_LEN |-> 0]

\* ----------------------------------------------------------------------
\* C32: on a healthy channel the ConfigWriteResult config_register_write
\* returns is the one the device returned in the child: the same five lists,
\* each in the same order.
C32_ConfigWriteResultForwarded ==
    (ret.cmd = "WriteConfig" /\ ret.got = "WriteConfigResult"
        /\ ret.re = "WriteConfig" /\ ~ret.sendErr) =>
            ret.cw = ret.devCw

\* A write that moved the BAR returned: ranges were removed and added, two to
\* a list.
C32_Witness ==
    /\ ret.cmd = "WriteConfig"
    /\ ret.got = "WriteConfigResult"
    /\ Len(ret.cw.mmio_remove) = 2
    /\ ret.cw.mmio_add = BarRanges(TEST_BYTE, 16)
    /\ ret.cw = ret.devCw

\* A write that cleared the BAR returned the device it removed.
C32_WitnessRemoved ==
    /\ ret.cmd = "WriteConfig"
    /\ ret.cw.removed_pci_devices # <<>>
    /\ ret.cw.mmio_add = <<>>

\* ----------------------------------------------------------------------
\* C33: init_pci_config_mapping returns true only when the result that
\* arrived is an InitPciConfigMappingResult carrying true; when cloning the
\* shared-memory handle fails it returns false and sends nothing; it returns
\* false when the channel fails and when the result is of another variant or
\* carries false.
C33_MappingResult ==
    /\ [](ret.cmd = "InitPciConfigMapping" \/ ret.cloneErr =>
            (ret.ok <=> /\ ~ret.cloneErr
                        /\ ret.got = "InitPciConfigMappingResult"
                        /\ ret.resOk))
    /\ [][ret'.cloneErr =>
            /\ ~ret'.ok
            /\ ret'.cmd = "None"
            /\ p2c' = p2c
            /\ ppc' = ppc]_vars

\* The method returned true.
C33_Witness ==
    /\ ret.cmd = "InitPciConfigMapping"
    /\ ret.got = "InitPciConfigMappingResult"
    /\ ret.ok

\* The clone failed with the child alive: false, and nothing to receive.
C33_WitnessClone ==
    /\ ret.cloneErr
    /\ ~ret.ok
    /\ ChildOpen
    /\ p2c = <<>>

\* Another variant carrying true arrived, and the channel failed: false.
C33_WitnessVariant ==
    /\ ret.cmd = "InitPciConfigMapping"
    /\ ret.got \notin {"None", "InitPciConfigMappingResult"}
    /\ ret.resOk
    /\ ~ret.ok

C33_WitnessChannel ==
    /\ ret.cmd = "InitPciConfigMapping"
    /\ ret.got = "None"
    /\ ~ret.cloneErr
    /\ ~ret.ok

\* An InitPciConfigMappingResult carrying false arrived: false.
C33_WitnessFalse ==
    /\ ret.cmd = "InitPciConfigMapping"
    /\ ret.got = "InitPciConfigMappingResult"
    /\ ~ret.resOk
    /\ ~ret.ok

\* ----------------------------------------------------------------------
\* C34: for a GoldfishBattery whose monitor was started, sleep() followed by
\* wake() starts monitoring again: after the wake the monitor thread runs and
\* activated is true.
C34_WakeRestartsMonitor ==
    [][(/\ bat'.op = "wake"
        /\ bat.op \in {"sleep", "sleep_again"}
        /\ bat.dev.activated
        /\ bat.dev.starts > 0)
        => bat'.dev.monitor_thread /\ bat'.dev.activated]_vars

\* C35: wake() is idempotent on a GoldfishBattery: a wake() that directly
\* follows a wake() leaves the activated flag, the presence of the monitor
\* thread and the snapshot value as they were.
C35_WakeIdempotent ==
    [][bat'.op = "wake_again" =>
        /\ bat'.dev.activated = bat.dev.activated
        /\ bat'.dev.monitor_thread = bat.dev.monitor_thread
        /\ BatSnapshot(bat'.dev) = BatSnapshot(bat.dev)]_vars

C39_Bit == IntOf(bat'.out.property)

\* C39: a setter reports that an interrupt must be injected exactly when the
\* new value differs from the old one, the setter's bit is enabled in
\* int_enable and it is not pending in int_status; then and only then the
\* bit is set in int_status; and a guest read of the interrupt-status
\* register returns the pending bits and clears them.
C39_InterruptOnChange ==
    /\ [][DOMAIN bat'.out = {"property", "inject"} =>
            LET old == bat.dev.state
                new == bat'.dev.state
                wanted == /\ new[bat'.out.property] # old[bat'.out.property]
                          /\ HasBit(old.int_enable, C39_Bit)
                          /\ ~HasBit(old.int_status, C39_Bit)
            IN /\ bat'.out.inject <=> wanted
               /\ new.int_status =
                     IF wanted THEN old.int_status + C39_Bit
                     ELSE old.int_status]_vars
    /\ [][DOMAIN bat'.out = {"read"} =>
            /\ bat'.out.read = ToNeBytes(bat.dev.state.int_status)
            /\ bat'.dev.state.int_status = 0]_vars

\* The AC setter reported an interrupt while the battery interrupt was
\* already pending: both bits are pending now.
C39_Witness ==
    /\ DOMAIN bat.out = {"property", "inject"}
    /\ bat.out.property = "ac_online"
    /\ bat.out.inject
    /\ bat.dev.state.int_status = BATTERY_INT_MASK

\* A changed value reported no interrupt, its bit being pending already.
C39_WitnessPending ==
    /\ DOMAIN bat.out = {"property", "inject"}
    /\ ~bat.out.inject
    /\ bat.out.property = "capacity"
    /\ bat.dev.state.capacity = BAT_CAPACITY_MOD
    /\ bat.mods # 0
    /\ HasBit(bat.dev.state.int_status, BATTERY_STATUS_CHANGED)

\* A changed value reported no interrupt, only the other bit being enabled.
C39_WitnessDisabled ==
    /\ DOMAIN bat.out = {"property", "inject"}
    /\ ~bat.out.inject
    /\ bat.out.property = "ac_online"
    /\ bat.dev.state.ac_online = 0
    /\ bat.dev.state.int_enable = BATTERY_STATUS_CHANGED
    /\ bat.dev.state.int_status = 0

\* The guest read both pending bits.
C39_WitnessRead ==
    /\ DOMAIN bat.out = {"read"}
    /\ bat.out.read = ToNeBytes(BATTERY_INT_MASK)
    /\ bat.dev.state.int_status = 0

\* No copy of the descriptor was ever made.
C36_NotDuplicated == \A c \in Copies \ {1} : ppc[c] = "none"

\* C36: whenever a ProxyDevice exists the child has answered Activate and is
\* past its wait for activation; and for a descriptor that was not
\* duplicated, a command other than Activate is in the Tube only after the
\* child answered Activate, and the child never meets a command other than
\* Activate while it waits for activation.
C36_ActivatedBeforeUse ==
    /\ converted # {} =>
          /\ cpc \notin {"none", "forked", "await"}
          /\ actOks >= 1
    /\ C36_NotDuplicated =>
          /\ \A i \in 1..Len(p2c) :
                p2c[i].cmd # "Activate" =>
                    actOks >= 1 /\ cpc \notin {"none", "forked", "await"}
          /\ ~(last.state = "await" /\ last.cmd \notin {"None", "Activate"})

\* The one ProxyDevice has sent a command that the activated child has not
\* taken yet.
C36_Witness ==
    /\ C36_NotDuplicated
    /\ converted = {1}
    /\ cpc = "active"
    /\ actOks = 1
    /\ p2c # <<>>
    /\ Head(p2c).cmd \notin {"Activate", "Shutdown"}

\* The conversion of copy c has just failed.
C37_Failed(c) == ppc[c] # "failed" /\ ppc'[c] = "failed"

\* A failed conversion makes no ProxyDevice and leaves no Shutdown of its
\* copy behind, and its hold on the parent-side endpoint is gone: with the
\* last holder the endpoint is closed.
C37_FailureReleases ==
    /\ [][\A c \in Copies :
            C37_Failed(c) =>
                /\ c \notin converted'
                /\ pend'[c] = NoReq
                /\ Len(p2c') <= Len(p2c)
                /\ ~ParentOpen' => c2p' = <<>>]_vars
    /\ [](\A c \in Copies :
            ppc[c] = "failed" =>
                /\ ~Live(ppc[c])
                /\ shut.src # c
                /\ \A i \in 1..Len(p2c) :
                      ~(p2c[i].cmd = "Shutdown" /\ p2c[i].src = c))

C37_WitnessPanic ==
    /\ ppc[2] = "failed"
    /\ converted = {1}
    /\ cpc = "exited"
    /\ exitCode = EXIT_PANIC
    /\ last.cmd = "Activate"
    /\ last.state = "active"
====
